---- MODULE Spec2Model ----
(***************************************************************************)
(* KmsRtpSynchronizer (kms-core, gst-plugins/commons/kmsrtpsynchronizer.c) *)
(* as a state machine: one instance, its private fields, and one action    *)
(* per public operation.  Every operation takes the instance's recursive   *)
(* mutex around all of its reads and writes of the private fields, so an   *)
(* operation is one atomic step here.                                      *)
(*                                                                         *)
(* TLC's integers are 32 bits wide, so the machine words are scaled down:  *)
(* a guint64 is 4 bits wide (G_MAXUINT64 = 15), a guint32 RTP timestamp is *)
(* 2 bits wide (G_MAXUINT32 = 3), and GST_SECOND is 3, which keeps the     *)
(* source's order GST_SECOND < 2^32 < G_MAXUINT64.  All unsigned           *)
(* arithmetic wraps modulo the scaled width exactly where the C code's     *)
(* does.                                                                   *)
(***************************************************************************)
EXTENDS Integers, Sequences, FiniteSets, TLC

\* ------------------------------------------------------------ machine words

\* Largest guint64 (scaled); also the bit pattern of GST_CLOCK_TIME_NONE.
G_MAXUINT64 == 15
\* Largest guint32 (scaled): the width of an RTP timestamp on the wire.
G_MAXUINT32 == 3
\* Largest gint32 (scaled): half the timestamp range, minus one.
G_MAXINT32 == 1
\* Nanoseconds per second (scaled).
GST_SECOND == 3

GST_CLOCK_TIME_NONE == G_MAXUINT64

GST_CLOCK_TIME_IS_VALID(t) == t # GST_CLOCK_TIME_NONE

\* guint64 arithmetic: the value modulo 2^64.
U64(x) == x % (G_MAXUINT64 + 1)

\* 1 << 32: the modulus of the 32-bit RTP timestamp, and the divisor of the
\* NTP fixed-point format (32 fractional bits).
WRAP32 == G_MAXUINT32 + 1

\* ------------------------------------------------------------ bounds

\* How many times the 32-bit timestamp may wrap: the extended timestamp is
\* kept below (MaxWraps + 1) * 2^32, far from the top of the 64-bit range
\* (which takes 2^32 wraparounds to reach).
MaxWraps == 1

ExtCap == (MaxWraps + 1) * WRAP32

\* How many rows the stats file may take: with a stats file, process_rtp is
\* called only while the rows written and the calls under way stay within it.
MaxRows == 2

\* ------------------------------------------------------------ inputs

GST_RTCP_TYPE_SR == 200
GST_RTCP_TYPE_RR == 201

\* The values the callers' arguments are drawn from, one record per
\* specification.  ssrc, pt, ts, pts: the SSRC, payload type and timestamp of
\* an RTP packet and the PTS of its buffer.  new_pt, new_clock_rate: the
\* arguments of set_pt_clock_rate.  sr_ssrc, ntp, sr_ts, dts: the sender info
\* of a Sender Report (NTP timestamp in the 32.32 fixed-point wire format) and
\* the DTS of its buffer.
\*
\* The timing of one stream: one SSRC, one payload type, one clock rate (4
\* ticks per second, where GST_SECOND is 3: a tick is 3/4 ns), every
\* timestamp, buffer times near the bottom and near the top of the range, NTP
\* times of 0 and 3 ns (5 * GST_SECOND / 2^32, truncated).
TimingInputs ==
  [ssrc |-> {1}, pt |-> {96}, ts |-> 0 .. G_MAXUINT32,
   pts |-> {2, G_MAXUINT64 - 1},
   new_pt |-> {96}, new_clock_rate |-> {0, 4},
   sr_ssrc |-> {1}, ntp |-> {0, 5}, sr_ts |-> 0 .. G_MAXUINT32,
   dts |-> {0, G_MAXUINT64 - 1}]

\* The checks on the callers' arguments: every SSRC, payload type and clock
\* rate, few timestamps.
ChecksInputs ==
  [ssrc |-> {0, 1, 2}, pt |-> {0, 96}, ts |-> {0, 1},
   pts |-> {2, G_MAXUINT64 - 1},
   new_pt |-> {0, 96}, new_clock_rate |-> {-1, 0, 1, 4},
   sr_ssrc |-> {0, 1}, ntp |-> {4}, sr_ts |-> {1},
   dts |-> {G_MAXUINT64 - 1}]

\* ------------------------------------------------------------ library calls

\* gst_util_uint64_scale (val, num, denom) and gst_util_uint64_scale_int:
\* val * num / denom, truncated, and G_MAXUINT64 when the result overflows.
gst_util_uint64_scale(val, num, denom) ==
  LET q == (val * num) \div denom
  IN  IF q > G_MAXUINT64 THEN G_MAXUINT64 ELSE q

\* The timestamp zero-extended, whatever the counter.
ext_timestamp_zero_extended(ext, timestamp) ==
  [result |-> timestamp, stored |-> timestamp]

\* gst_rtp_buffer_ext_timestamp (&exttimestamp, timestamp): the value it
\* returns and the value it leaves in *exttimestamp.  An unset counter takes
\* the timestamp as it is.  Otherwise the timestamp is put under the
\* counter's wraparound count; if that lands more than G_MAXINT32 ticks
\* behind the counter, one wraparound is added; if it lands more than
\* G_MAXINT32 ticks ahead, the timestamp belongs to the wraparound before:
\* the call returns that value (0 when there is no wraparound before) and
\* does not move the counter back.
gst_rtp_buffer_ext_timestamp(ext, timestamp) ==
  IF ext = GST_CLOCK_TIME_NONE
  THEN [result |-> timestamp, stored |-> timestamp]
  ELSE LET result == U64(timestamp + (ext - (ext % WRAP32)))
       IN  IF result < ext
           THEN IF ext - result > G_MAXINT32
                THEN [result |-> U64(result + WRAP32),
                      stored |-> U64(result + WRAP32)]
                ELSE [result |-> result, stored |-> result]
           ELSE IF result - ext > G_MAXINT32
                THEN IF result < WRAP32
                     THEN [result |-> 0, stored |-> ext]
                     ELSE [result |-> result - WRAP32, stored |-> ext]
                ELSE [result |-> result, stored |-> result]

\* ------------------------------------------------------------ state

VARIABLES
  feeded_sorted,              \* priv->feeded_sorted
  ssrc,                       \* priv->ssrc
  pt,                         \* priv->pt
  clock_rate,                 \* priv->clock_rate
  base_initiated,             \* priv->base_initiated
  base_initiated_logged,      \* priv->base_initiated_logged
  base_ntp_time,              \* priv->base_ntp_time
  base_sync_time,             \* priv->base_sync_time
  base_interpolate_initiated, \* priv->base_interpolate_initiated
  base_interpolate_ext_ts,    \* priv->base_interpolate_ext_ts
  base_interpolate_pts,       \* priv->base_interpolate_pts
  rtp_ext_ts,                 \* priv->rtp_ext_ts
  last_rtcp_ext_ts,           \* priv->last_rtcp_ext_ts
  last_rtcp_ntp_time,         \* priv->last_rtcp_ntp_time
  fs_last_rtp_ext_ts,         \* priv->fs_last_rtp_ext_ts
  fs_last_pts,                \* priv->fs_last_pts
  first_ssrc,                 \* history: the SSRC of the first RTP packet
  emitted,                    \* history: the last packet taken in sorted mode
  stats_file,                 \* priv->stats_file is open
  stats_rows,                 \* what has been printed to priv->stats_file
  mutex,                      \* priv->mutex: the thread that holds it, or 0
  stats_mutex,                \* priv->stats_mutex: the same
  pc,                         \* each thread's position in the call it makes
  local,                      \* each thread's arguments and local variables
  report,                     \* history: the Sender Reports behind the fields
  applied,                    \* one application of rtp_diff_full
  conn,                       \* the KmsSrtpConnection: its r_* fields
  srtpenc,                    \* the properties of conn->srtpenc
  conn_mutex,                 \* the connection's lock: its holder, or 0
  conn_pc,                    \* each thread's position in a connection call
  conn_local,                 \* each thread's arguments in that call
  key_caps                    \* history: what request-key returned last

config == <<pt, clock_rate>>
base == <<base_initiated, base_ntp_time, base_sync_time>>
interpolate ==
  <<base_initiated_logged, base_interpolate_initiated,
    base_interpolate_ext_ts, base_interpolate_pts>>
rtcp == <<last_rtcp_ext_ts, last_rtcp_ntp_time>>
sorted == <<fs_last_rtp_ext_ts, fs_last_pts>>
\* Every private field of the instance.
priv ==
  <<feeded_sorted, ssrc, config, base, interpolate, rtp_ext_ts, rtcp, sorted>>
\* The locks, and the threads inside the calls.
threads == <<stats_file, stats_rows, mutex, stats_mutex, pc, local, report>>
\* The SRTP connection, its lock and the threads inside its calls.
srtp == <<conn, srtpenc, conn_mutex, conn_pc, conn_local, key_caps>>
vars == <<priv, first_ssrc, emitted, threads, applied, srtp>>

\* History: the SSRC of the first RTP packet handed to the instance.
NoSsrc == [seen |-> FALSE, ssrc |-> 0]

\* History: the extended timestamp and the PTS of the last RTP packet that
\* passed the checks while the instance was in sorted mode (none once it is
\* demoted).
NoPacket == [valid |-> FALSE, ext_ts |-> 0, pts |-> 0]

\* The threads that call into the instance.
Threads == {1, 2}

\* A thread outside any call has no arguments and no local variables.
NoLocal == [op |-> "none"]

\* History: no Sender Report.
NoReport == [thread |-> 0, ntp_time |-> 0, rtcp_ts |-> 0, current_time |-> 0]

\* History: the Sender Report whose call wrote last_rtcp_ext_ts, the one
\* whose call wrote last_rtcp_ntp_time, the last one whose call has
\* returned, and whether the base, once initiated, has its two times.
NoReports ==
  [ext |-> NoReport, ntp |-> NoReport, finished |-> NoReport,
   base_written |-> FALSE]

\* No application of rtp_diff_full on its own.
NoApplication ==
  [pts |-> 0, ext_ts |-> 0, rate |-> 1, base_ext_ts |-> 0,
   wrapped_down |-> FALSE, wrapped_up |-> FALSE, done |-> TRUE, out |-> 0]

\* kms_rtp_synchronizer_init and kms_rtp_synchronizer_new: the zeroed private
\* structure, the timestamps unset, feeded_sorted as the creator gives it.
InitPriv ==
  /\ feeded_sorted \in BOOLEAN
  /\ ssrc = 0
  /\ pt = 0
  /\ clock_rate = 0
  /\ base_initiated = FALSE
  /\ base_initiated_logged = FALSE
  /\ base_ntp_time = GST_CLOCK_TIME_NONE
  /\ base_sync_time = GST_CLOCK_TIME_NONE
  /\ base_interpolate_initiated = FALSE
  /\ base_interpolate_ext_ts = GST_CLOCK_TIME_NONE
  /\ base_interpolate_pts = GST_CLOCK_TIME_NONE
  /\ rtp_ext_ts = GST_CLOCK_TIME_NONE
  /\ last_rtcp_ext_ts = GST_CLOCK_TIME_NONE
  /\ last_rtcp_ntp_time = GST_CLOCK_TIME_NONE
  /\ fs_last_rtp_ext_ts = GST_CLOCK_TIME_NONE
  /\ fs_last_pts = GST_CLOCK_TIME_NONE
  /\ first_ssrc = NoSsrc
  /\ emitted = NoPacket

\* g_rec_mutex_init and g_mutex_init: both locks free, no thread in a call,
\* and no row in the stats file.
NoCalls ==
  /\ stats_rows = <<>>
  /\ mutex = 0
  /\ stats_mutex = 0
  /\ pc = [t \in Threads |-> "idle"]
  /\ local = [t \in Threads |-> NoLocal]
  /\ report = NoReports

\* A pointer is a sequence: empty for NULL, else the one object pointed to.
NULL == <<>>

\* The connection as kms_srtp_connection_new returns it: the instance memory
\* is zeroed, and r_updated and r_key_set are set to FALSE.
kms_srtp_connection_new ==
  [r_key_set |-> FALSE, r_updated |-> FALSE,
   r_key |-> NULL, r_auth |-> 0, r_cipher |-> 0]

\* A new connection that no thread has called yet: srtpenc has no key, the
\* lock is free and request-key has returned nothing.
NoConnectionCalls ==
  /\ conn = kms_srtp_connection_new
  /\ srtpenc = [key |-> NULL, cipher |-> 0, auth |-> 0]
  /\ conn_mutex = 0
  /\ conn_pc = [t \in Threads |-> "idle"]
  /\ conn_local = [t \in Threads |-> NoLocal]
  /\ key_caps = [returned |-> FALSE, caps |-> NULL]

\* The instance as kms_rtp_synchronizer_new returns it when it is given no
\* stats name or KMS_RTP_SYNC_STATS_PATH is not set: no stats file.
Init ==
  /\ InitPriv
  /\ NoCalls
  /\ stats_file = FALSE
  /\ applied = NoApplication
  /\ NoConnectionCalls

\* ------------------------------------------------------------ configure

\* A set_pt_clock_rate that lacks the "Only one PT allowed" check.
set_pt_clock_rate_fails_rate_only(new_clock_rate) ==
  new_clock_rate <= 0

\* kms_rtp_synchronizer_set_pt_clock_rate: whether the call is refused.
set_pt_clock_rate_fails(new_clock_rate) ==
  new_clock_rate <= 0 \/ clock_rate # 0

\* kms_rtp_synchronizer_set_pt_clock_rate: what the call returns and the
\* fields as it leaves them.
kms_rtp_synchronizer_set_pt_clock_rate(new_pt, new_clock_rate) ==
  IF set_pt_clock_rate_fails(new_clock_rate)
  THEN [ret |-> FALSE, error |-> "INVALID_DATA", pt |-> pt,
        clock_rate |-> clock_rate]
  ELSE [ret |-> TRUE, error |-> "none", pt |-> new_pt,
        clock_rate |-> new_clock_rate]

\* ------------------------------------------------------------ RTCP

\* The packets an RTCP buffer may hold: a Sender Report with its sender info
\* (ssrc, NTP timestamp, RTP timestamp), or a Receiver Report.
SenderReports(in) ==
  [type : {GST_RTCP_TYPE_SR}, ssrc : in.sr_ssrc, ntp_ts : in.ntp,
   rtp_ts : in.sr_ts]
ReceiverReport ==
  [type |-> GST_RTCP_TYPE_RR, ssrc |-> 0, ntp_ts |-> 0, rtp_ts |-> 0]
RtcpPackets(in) == SenderReports(in) \cup {ReceiverReport}
\* The packets of the compound buffers.
CompoundPackets ==
  {ReceiverReport,
   [type |-> GST_RTCP_TYPE_SR, ssrc |-> 1, ntp_ts |-> 5, rtp_ts |-> 1]}
\* The buffers: empty, one packet, or a compound of two, and one that does
\* not map as RTCP.
RtcpBuffers(in) ==
  [mappable : {TRUE},
   packets : {<<>>} \cup {<<p>> : p \in RtcpPackets(in)}
             \cup {<<p, q>> : p \in CompoundPackets, q \in CompoundPackets}]
  \cup {[mappable |-> FALSE, packets |-> <<>>]}

\* The anchor fields a call of process_rtcp_buffer may write, as they are.
rtcp_unchanged ==
  [base_initiated |-> base_initiated, base_ntp_time |-> base_ntp_time,
   base_sync_time |-> base_sync_time, rtp_ext_ts |-> rtp_ext_ts,
   last_rtcp_ext_ts |-> last_rtcp_ext_ts,
   last_rtcp_ntp_time |-> last_rtcp_ntp_time]

\* A process_rtcp_packet that captures the base on every Sender Report.
sender_report_base_every_sr(ntp_time, current_time) ==
  [base_initiated |-> TRUE, base_ntp_time |-> ntp_time,
   base_sync_time |-> current_time]

\* The base a Sender Report leaves: captured by the first one only.
sender_report_base(ntp_time, current_time) ==
  IF ~base_initiated
  THEN [base_initiated |-> TRUE, base_ntp_time |-> ntp_time,
        base_sync_time |-> current_time]
  ELSE [base_initiated |-> base_initiated, base_ntp_time |-> base_ntp_time,
        base_sync_time |-> base_sync_time]

\* A process_rtcp_packet that passes over the Sender Reports of another
\* SSRC than the one stored.
process_rtcp_packet_own_ssrc(packet, current_time) ==
  IF packet.type # GST_RTCP_TYPE_SR \/ (ssrc # 0 /\ packet.ssrc # ssrc)
  THEN rtcp_unchanged
  ELSE LET ntp_time ==
             gst_util_uint64_scale(packet.ntp_ts, GST_SECOND, WRAP32)
           ext == gst_rtp_buffer_ext_timestamp(rtp_ext_ts, packet.rtp_ts)
           new_base == sender_report_base(ntp_time, current_time)
       IN  [base_initiated |-> new_base.base_initiated,
            base_ntp_time |-> new_base.base_ntp_time,
            base_sync_time |-> new_base.base_sync_time,
            rtp_ext_ts |-> ext.stored,
            last_rtcp_ext_ts |-> ext.result,
            last_rtcp_ntp_time |-> ntp_time]

\* kms_rtp_synchronizer_process_rtcp_packet: the anchor fields as the packet
\* leaves them.
kms_rtp_synchronizer_process_rtcp_packet(packet, current_time) ==
  IF packet.type # GST_RTCP_TYPE_SR
  THEN rtcp_unchanged
  ELSE LET ntp_time ==
             gst_util_uint64_scale(packet.ntp_ts, GST_SECOND, WRAP32)
           ext == gst_rtp_buffer_ext_timestamp(rtp_ext_ts, packet.rtp_ts)
           new_base == sender_report_base(ntp_time, current_time)
       IN  [base_initiated |-> new_base.base_initiated,
            base_ntp_time |-> new_base.base_ntp_time,
            base_sync_time |-> new_base.base_sync_time,
            rtp_ext_ts |-> ext.stored,
            last_rtcp_ext_ts |-> ext.result,
            last_rtcp_ntp_time |-> ntp_time]

\* A buffer handler that looks for the first Sender Report of the compound.
first_sender_report(packets) ==
  IF \E i \in 1 .. Len(packets) : packets[i].type = GST_RTCP_TYPE_SR
  THEN packets[CHOOSE i \in 1 .. Len(packets) :
                 /\ packets[i].type = GST_RTCP_TYPE_SR
                 /\ \A j \in 1 .. (i - 1) :
                      packets[j].type # GST_RTCP_TYPE_SR]
  ELSE Head(packets)

\* gst_rtcp_buffer_get_first_packet, on a buffer that holds a packet: the
\* packet the buffer handler hands on.
gst_rtcp_buffer_get_first_packet(packets) == Head(packets)

\* kms_rtp_synchronizer_process_rtcp_buffer: what the call returns and the
\* anchor fields as it leaves them.
kms_rtp_synchronizer_process_rtcp_buffer(buffer, dts) ==
  IF ~buffer.mappable
  THEN [ret |-> FALSE, error |-> "UNEXPECTED_ERROR", fields |-> rtcp_unchanged]
  ELSE IF buffer.packets = <<>>
  THEN [ret |-> TRUE, error |-> "none", fields |-> rtcp_unchanged]
  ELSE [ret |-> TRUE, error |-> "none",
        fields |-> kms_rtp_synchronizer_process_rtcp_packet(
                     gst_rtcp_buffer_get_first_packet(buffer.packets), dts)]

\* ------------------------------------------------------------ PTS arithmetic

\* An offset step that follows the wording "saturate when the flag is set
\* and the offset crosses the end of the range, add or subtract otherwise".
rtp_diff_full_flag_and_overflow(pts, ext_ts, rate, base_ext_ts, wrapped_down, wrapped_up) ==
  LET d == gst_util_uint64_scale(
             IF ext_ts > base_ext_ts THEN ext_ts - base_ext_ts
             ELSE base_ext_ts - ext_ts, GST_SECOND, rate)
  IN  IF ext_ts > base_ext_ts
      THEN IF wrapped_up /\ d > G_MAXUINT64 - pts THEN G_MAXUINT64
           ELSE IF wrapped_down /\ d < G_MAXUINT64 - pts THEN 0
           ELSE U64(pts + d)
      ELSE IF ext_ts < base_ext_ts
      THEN IF ~wrapped_up /\ d > pts THEN 0
           ELSE IF wrapped_up /\ d < pts THEN G_MAXUINT64
           ELSE U64(pts - d)
      ELSE IF wrapped_down THEN 0
      ELSE IF wrapped_up THEN G_MAXUINT64
      ELSE pts

\* kms_rtp_synchronizer_rtp_diff_full: the buffer's PTS after the RTP offset
\* between the tracker's counter (self->priv->rtp_ext_ts, here ext_ts) and
\* base_ext_ts is applied to pts, given the wrap flags of the step before.
kms_rtp_synchronizer_rtp_diff_full(pts, ext_ts, rate, base_ext_ts, wrapped_down, wrapped_up) ==
  IF ext_ts > base_ext_ts
  THEN LET diff_rtp_time ==
             gst_util_uint64_scale(ext_ts - base_ext_ts, GST_SECOND, rate)
       IN  IF wrapped_up
           THEN G_MAXUINT64
           ELSE IF wrapped_down /\ diff_rtp_time < G_MAXUINT64 - pts
           THEN 0
           ELSE IF ~wrapped_down /\ diff_rtp_time > G_MAXUINT64 - pts
           THEN G_MAXUINT64
           ELSE U64(pts + diff_rtp_time)
  ELSE IF ext_ts < base_ext_ts
  THEN LET diff_rtp_time ==
             gst_util_uint64_scale(base_ext_ts - ext_ts, GST_SECOND, rate)
       IN  IF wrapped_down
           THEN 0
           ELSE IF wrapped_up /\ diff_rtp_time < pts
           THEN G_MAXUINT64
           ELSE IF ~wrapped_up /\ diff_rtp_time > pts
           THEN 0
           ELSE U64(pts - diff_rtp_time)
  ELSE IF wrapped_down
  THEN 0
  ELSE IF wrapped_up
  THEN G_MAXUINT64
  ELSE pts

kms_rtp_synchronizer_rtp_diff(pts, ext_ts, rate, base_ext_ts) ==
  kms_rtp_synchronizer_rtp_diff_full(pts, ext_ts, rate, base_ext_ts,
                                     FALSE, FALSE)

\* process_rtp_buffer_mapped, the first half of the branch taken once a
\* Sender Report has been seen: base_sync_time moved by the NTP offset of the
\* last Sender Report from the first (in guint64 arithmetic, which wraps),
\* and the wrap flags.  ntp_time_diff is a GstClockTimeDiff (gint64) that the
\* comparisons and the += / -= convert back to guint64: the same 64 bits, so
\* the value is the unsigned difference.
ntp_moved ==
  LET pts == base_sync_time
      forward == last_rtcp_ntp_time > base_ntp_time
      backward == last_rtcp_ntp_time < base_ntp_time
      ntp_time_diff == IF forward
                       THEN U64(last_rtcp_ntp_time - base_ntp_time)
                       ELSE U64(base_ntp_time - last_rtcp_ntp_time)
  IN  [pts |-> IF forward THEN U64(pts + ntp_time_diff)
               ELSE IF backward THEN U64(pts - ntp_time_diff)
               ELSE pts,
       wrapped_down |-> backward /\ pts < ntp_time_diff,
       wrapped_up |-> forward /\ ntp_time_diff > G_MAXUINT64 - pts]

\* The same without the wrap flags: the moved base handed to the flagless
\* offset step.
synchronized_pts_no_wrap_flags(ext_ts) ==
  kms_rtp_synchronizer_rtp_diff(ntp_moved.pts, ext_ts, clock_rate,
                                last_rtcp_ext_ts)

\* process_rtp_buffer_mapped, the branch taken once a Sender Report has been
\* seen: the moved base, then the RTP offset from the last Sender Report.
synchronized_pts(ext_ts) ==
  kms_rtp_synchronizer_rtp_diff_full(ntp_moved.pts, ext_ts, clock_rate,
    last_rtcp_ext_ts, ntp_moved.wrapped_down, ntp_moved.wrapped_up)

\* An interpolation on the 32-bit timestamp as it is on the wire.
interpolated_pts_wire_timestamp(ext_ts) ==
  kms_rtp_synchronizer_rtp_diff(base_interpolate_pts, ext_ts % WRAP32,
                                clock_rate, base_interpolate_ext_ts)

\* process_rtp_buffer_mapped, the branch taken while no Sender Report has been
\* seen and the interpolation base is set.
interpolated_pts(ext_ts) ==
  kms_rtp_synchronizer_rtp_diff(base_interpolate_pts, ext_ts, clock_rate,
                                base_interpolate_ext_ts)

\* ------------------------------------------------------------ sorted mode

\* A pre-check that also takes a repeated timestamp for a packet behind.
is_regression_or_equal(ext_ts) ==
  /\ feeded_sorted
  /\ GST_CLOCK_TIME_IS_VALID(fs_last_rtp_ext_ts)
  /\ ext_ts <= fs_last_rtp_ext_ts

\* A pre-check that takes no packet for one behind.
is_regression_never(ext_ts) == FALSE

\* The feeded-sorted check before the PTS is computed: the packet is behind
\* the last one.
is_regression(ext_ts) ==
  /\ feeded_sorted
  /\ GST_CLOCK_TIME_IS_VALID(fs_last_rtp_ext_ts)
  /\ ext_ts < fs_last_rtp_ext_ts

\* The packet has the timestamp of the last one.
is_duplicate(ext_ts) ==
  /\ feeded_sorted
  /\ ~is_regression(ext_ts)
  /\ ext_ts = fs_last_rtp_ext_ts

\* The PTS of a duplicate: fs_last_pts when it is set, the buffer's own if not.
duplicate_pts(pts_orig) ==
  IF GST_CLOCK_TIME_IS_VALID(fs_last_pts) THEN fs_last_pts ELSE pts_orig

\* A fix applied in either mode.
fixed_pts_any_mode(pts_current, sorted_now) ==
  IF GST_CLOCK_TIME_IS_VALID(fs_last_pts) /\ pts_current < fs_last_pts
  THEN fs_last_pts
  ELSE pts_current

\* A fix that goes by the mode the call started in, not the one the
\* pre-check left.
fixed_pts_mode_at_entry(pts_current, sorted_now) ==
  IF feeded_sorted /\ GST_CLOCK_TIME_IS_VALID(fs_last_pts)
     /\ pts_current < fs_last_pts
  THEN fs_last_pts
  ELSE pts_current

\* The feeded-sorted fix after the PTS is computed, sorted_now being
\* priv->feeded_sorted as the pre-check left it.
fixed_pts(pts_current, sorted_now) ==
  IF sorted_now /\ GST_CLOCK_TIME_IS_VALID(fs_last_pts)
     /\ pts_current < fs_last_pts
  THEN fs_last_pts
  ELSE pts_current

\* ------------------------------------------------------------ RTP

\* The SSRC check: a packet is refused when an SSRC is stored and differs.
ssrc_mismatch(packet_ssrc) == ssrc # 0 /\ packet_ssrc # ssrc

\* The payload type check without the test of the clock rate.
pt_mismatch_pt_only(packet_pt) == packet_pt # pt

\* The payload type and clock rate check.
pt_mismatch(packet_pt) == packet_pt # pt \/ clock_rate <= 0

\* The fields a call of process_rtp_buffer may write, as they are, and a
\* buffer left with the PTS it came with.
rtp_unchanged(pts_orig) ==
  [ret |-> TRUE, error |-> "none", path |-> "none", pts |-> pts_orig,
   ext_ts |-> GST_CLOCK_TIME_NONE, computed |-> pts_orig,
   ssrc |-> ssrc, rtp_ext_ts |-> rtp_ext_ts, feeded_sorted |-> feeded_sorted,
   base_initiated_logged |-> base_initiated_logged,
   base_interpolate_initiated |-> base_interpolate_initiated,
   base_interpolate_ext_ts |-> base_interpolate_ext_ts,
   base_interpolate_pts |-> base_interpolate_pts,
   fs_last_rtp_ext_ts |-> fs_last_rtp_ext_ts, fs_last_pts |-> fs_last_pts]

\* The PTS computed for a packet, by the regime: the buffer's own for the
\* packet that sets the interpolation base.
regime_pts(ext_ts, pts_orig) ==
  IF ~base_initiated
  THEN IF ~base_interpolate_initiated
       THEN pts_orig
       ELSE interpolated_pts(ext_ts)
  ELSE synchronized_pts(ext_ts)

\* kms_rtp_synchronizer_process_rtp_buffer_mapped on a packet that passed the
\* SSRC, payload type and clock rate checks, from the timestamp's extension
\* to the end.
process_rtp_accepted(learned, rtp_ts, pts_orig) ==
  LET ext == gst_rtp_buffer_ext_timestamp(rtp_ext_ts, rtp_ts)
      ext_ts == ext.result
      regression == is_regression(ext_ts)
      sorted_now == feeded_sorted /\ ~regression
      computed == regime_pts(ext.stored, pts_orig)
      pts == fixed_pts(computed, sorted_now)
      took == [learned EXCEPT !.ext_ts = ext_ts, !.rtp_ext_ts = ext.stored]
  IN  IF is_duplicate(ext_ts)
      THEN [took EXCEPT !.path = "duplicate",
                        !.pts = duplicate_pts(pts_orig)]
      ELSE [took EXCEPT
              !.ret = ~regression,
              !.error = IF regression THEN "INVALID_DATA" ELSE "none",
              !.path = IF base_initiated THEN "synchronized"
                       ELSE "interpolate",
              !.feeded_sorted = sorted_now,
              !.base_initiated_logged =
                 IF base_initiated THEN base_initiated_logged ELSE TRUE,
              !.base_interpolate_initiated =
                 IF base_initiated THEN base_interpolate_initiated ELSE TRUE,
              !.base_interpolate_ext_ts =
                 IF ~base_initiated /\ ~base_interpolate_initiated
                 THEN ext_ts ELSE base_interpolate_ext_ts,
              !.base_interpolate_pts =
                 IF ~base_initiated /\ ~base_interpolate_initiated
                 THEN pts_orig ELSE base_interpolate_pts,
              !.computed = computed,
              !.pts = pts,
              !.fs_last_rtp_ext_ts =
                 IF sorted_now THEN ext_ts ELSE fs_last_rtp_ext_ts,
              !.fs_last_pts = IF sorted_now THEN pts ELSE fs_last_pts]

\* kms_rtp_synchronizer_process_rtp_buffer_mapped: what the call returns, the
\* PTS the buffer leaves with (pts), the packet's extended timestamp (ext_ts),
\* the PTS computed before the sorted-mode fix (computed), the path taken,
\* and the fields as the call leaves them.
kms_rtp_synchronizer_process_rtp_buffer_mapped(packet_ssrc, packet_pt, rtp_ts, pts_orig) ==
  IF ssrc_mismatch(packet_ssrc)
  THEN [rtp_unchanged(pts_orig) EXCEPT !.ret = FALSE,
          !.error = "INVALID_DATA", !.path = "ssrc"]
  ELSE LET learned ==
             [rtp_unchanged(pts_orig) EXCEPT
                !.ssrc = IF ssrc = 0 THEN packet_ssrc ELSE ssrc]
       IN  IF pt_mismatch(packet_pt)
           THEN [learned EXCEPT !.ret = FALSE, !.error = "INVALID_DATA",
                                !.path = "pt"]
           ELSE process_rtp_accepted(learned, rtp_ts, pts_orig)

\* Whether a packet passes the SSRC, payload type and clock rate checks.
Accepted(out) == out.path \notin {"ssrc", "pt"}

\* ------------------------------------------------------------ specification

\* The model's bound on the extended timestamp: a call that moves the
\* tracker's counter is made only while the counter stays below ExtCap.
ExtBounded(new_rtp_ext_ts) ==
  new_rtp_ext_ts < ExtCap \/ new_rtp_ext_ts = rtp_ext_ts

\* A call of kms_rtp_synchronizer_set_pt_clock_rate.
ConfigureCall(new_pt, new_clock_rate) ==
  \E out \in {kms_rtp_synchronizer_set_pt_clock_rate(new_pt,
                                                     new_clock_rate)} :
    /\ pt' = out.pt
    /\ clock_rate' = out.clock_rate
    /\ UNCHANGED <<feeded_sorted, ssrc, base, interpolate, rtp_ext_ts, rtcp,
                   sorted, first_ssrc, emitted, threads, applied, srtp>>

\* A call of kms_rtp_synchronizer_process_rtcp_buffer.
RtcpCall(buffer, dts) ==
  \E out \in {kms_rtp_synchronizer_process_rtcp_buffer(buffer, dts).fields} :
    /\ ExtBounded(out.rtp_ext_ts)
    /\ base_initiated' = out.base_initiated
    /\ base_ntp_time' = out.base_ntp_time
    /\ base_sync_time' = out.base_sync_time
    /\ rtp_ext_ts' = out.rtp_ext_ts
    /\ last_rtcp_ext_ts' = out.last_rtcp_ext_ts
    /\ last_rtcp_ntp_time' = out.last_rtcp_ntp_time
    /\ UNCHANGED <<feeded_sorted, ssrc, config, interpolate, sorted,
                   first_ssrc, emitted, threads, applied, srtp>>

\* A call of kms_rtp_synchronizer_process_rtp_buffer_writable on a buffer
\* that maps as RTP.
RtpCall(packet_ssrc, packet_pt, rtp_ts, pts_orig) ==
  \E out \in {kms_rtp_synchronizer_process_rtp_buffer_mapped(
                packet_ssrc, packet_pt, rtp_ts, pts_orig)} :
    /\ ExtBounded(out.rtp_ext_ts)
    /\ ssrc' = out.ssrc
    /\ rtp_ext_ts' = out.rtp_ext_ts
    /\ feeded_sorted' = out.feeded_sorted
    /\ base_initiated_logged' = out.base_initiated_logged
    /\ base_interpolate_initiated' = out.base_interpolate_initiated
    /\ base_interpolate_ext_ts' = out.base_interpolate_ext_ts
    /\ base_interpolate_pts' = out.base_interpolate_pts
    /\ fs_last_rtp_ext_ts' = out.fs_last_rtp_ext_ts
    /\ fs_last_pts' = out.fs_last_pts
    /\ first_ssrc' = IF first_ssrc.seen THEN first_ssrc
                     ELSE [seen |-> TRUE, ssrc |-> packet_ssrc]
    /\ emitted' = IF ~Accepted(out) THEN emitted
                  ELSE IF out.feeded_sorted
                  THEN [valid |-> TRUE, ext_ts |-> out.ext_ts,
                        pts |-> out.pts]
                  ELSE NoPacket
    /\ UNCHANGED <<config, base, rtcp, threads, applied, srtp>>

Configure(in) ==
  \E new_pt \in in.new_pt, new_clock_rate \in in.new_clock_rate :
    ConfigureCall(new_pt, new_clock_rate)

ProcessRtcp(in) ==
  \E buffer \in RtcpBuffers(in), dts \in in.dts : RtcpCall(buffer, dts)

ProcessRtp(in) ==
  \E packet_ssrc \in in.ssrc, packet_pt \in in.pt, rtp_ts \in in.ts,
     pts_orig \in in.pts :
    RtpCall(packet_ssrc, packet_pt, rtp_ts, pts_orig)

Next ==
  \/ Configure(TimingInputs)
  \/ ProcessRtcp(TimingInputs)
  \/ ProcessRtp(TimingInputs)

Spec == Init /\ [][Next]_vars

NextChecks ==
  \/ Configure(ChecksInputs)
  \/ ProcessRtcp(ChecksInputs)
  \/ ProcessRtp(ChecksInputs)

SpecChecks == Init /\ [][NextChecks]_vars

\* The RTP packets of a specification's inputs.
RtpPackets(in) == [ssrc : in.ssrc, pt : in.pt, ts : in.ts, pts : in.pts]

\* ------------------------------------------------------------ threads

\* Two threads inside the calls at once, each call taken apart into the
\* steps between which another thread may run.  One stream with one clock
\* rate, two timestamps, two NTP times.
ThreadsInputs ==
  [ssrc |-> {1}, pt |-> {96}, ts |-> {0, 1}, pts |-> {2},
   new_pt |-> {96}, new_clock_rate |-> {4},
   sr_ssrc |-> {1}, ntp |-> {0, 5}, sr_ts |-> {0, 1}, dts |-> {0}]

\* A lock that lets every thread in.
g_rec_mutex_lock_no_exclusion(t) == TRUE

\* KMS_RTP_SYNCHRONIZER_LOCK returns to thread t: the recursive mutex is
\* free or t's own (no call locks it twice, so no count is kept).
g_rec_mutex_lock(t) == mutex \in {0, t}

\* An unlock that leaves the mutex with its owner.
g_rec_mutex_unlock_kept(t) == mutex

\* KMS_RTP_SYNCHRONIZER_UNLOCK by thread t: the owner of the mutex after it.
g_rec_mutex_unlock(t) == IF mutex = t THEN 0 ELSE mutex

\* Thread t goes on to position to with the local variables new.
Goes(t, to, new) ==
  /\ pc' = [pc EXCEPT ![t] = to]
  /\ local' = [local EXCEPT ![t] = new]

\* Thread t returns from its call.
Returns(t) == Goes(t, "idle", NoLocal)

\* kms_rtp_synchronizer_set_pt_clock_rate is called with a clock rate that
\* passes the check made before the lock (a call with a rate <= 0 returns
\* there and touches nothing).
CallSetPtClockRate(t, new_pt, new_clock_rate) ==
  /\ pc[t] = "idle"
  /\ new_clock_rate > 0
  /\ Goes(t, "cfg_lock",
          [op |-> "set_pt_clock_rate", new_pt |-> new_pt,
           new_clock_rate |-> new_clock_rate])
  /\ UNCHANGED <<priv, first_ssrc, emitted, stats_file, stats_rows, mutex,
                 stats_mutex, report, applied, srtp>>

\* kms_rtp_synchronizer_process_rtcp_buffer is called with a buffer whose
\* first packet is a Sender Report: the sender info is read and the NTP time
\* converted before the lock.
CallProcessRtcp(t, packet, dts) ==
  /\ pc[t] = "idle"
  /\ packet.type = GST_RTCP_TYPE_SR
  /\ Goes(t, "rtcp_lock",
          [op |-> "process_rtcp",
           report |->
             [thread |-> t,
              ntp_time |->
                gst_util_uint64_scale(packet.ntp_ts, GST_SECOND, WRAP32),
              rtcp_ts |-> packet.rtp_ts, current_time |-> dts]])
  /\ UNCHANGED <<priv, first_ssrc, emitted, stats_file, stats_rows, mutex,
                 stats_mutex, report, applied, srtp>>

\* The pieces of the stats file printed by thread t.
PrintedBy(t) ==
  Cardinality({i \in 1 .. Len(stats_rows) : stats_rows[i] = t})

\* The model's bound on the stats file: the rows in it and the process_rtp
\* calls under way, each of which may add one, stay within MaxRows.
RowsBounded ==
  stats_file
    => Len(stats_rows) \div 2
       + Cardinality({u \in Threads : local[u].op = "process_rtp"}) < MaxRows

\* kms_rtp_synchronizer_process_rtp_buffer_writable is called with a buffer
\* that maps as RTP.  at_lock and expect are history: the last Sender Report
\* whose call had returned when the thread got the lock, and what the call
\* gives when nothing runs between its steps.  printed and behind are
\* history too: what the thread had printed to the stats file when the call
\* began, and the threads that had released the instance lock and not yet
\* begun their row when this call released it.
CallProcessRtp(t, packet) ==
  /\ pc[t] = "idle"
  /\ RowsBounded
  /\ Goes(t, "rtp_lock",
          [op |-> "process_rtp", packet |-> packet,
           printed |-> PrintedBy(t), behind |-> {},
           at_lock |-> NoReport, expect |-> NoLocal,
           path |-> "none", ret |-> TRUE, pts |-> packet.pts,
           ext_ts |-> GST_CLOCK_TIME_NONE,
           moved |-> [pts |-> 0, wrapped_down |-> FALSE,
                      wrapped_up |-> FALSE],
           read_ntp |-> NoReport, read_ext |-> NoReport,
           base_written |-> FALSE])
  /\ UNCHANGED <<priv, first_ssrc, emitted, stats_file, stats_rows, mutex,
                 stats_mutex, report, applied, srtp>>

\* KMS_RTP_SYNCHRONIZER_LOCK at the head of the three calls.
Lock(t) ==
  /\ pc[t] \in {"cfg_lock", "rtcp_lock", "rtp_lock"}
  /\ g_rec_mutex_lock(t)
  /\ mutex' = t
  /\ IF pc[t] = "rtp_lock"
     THEN Goes(t, "rtp_locked",
               [local[t] EXCEPT
                  !.at_lock = report.finished,
                  !.expect = kms_rtp_synchronizer_process_rtp_buffer_mapped(
                               local[t].packet.ssrc, local[t].packet.pt,
                               local[t].packet.ts, local[t].packet.pts)])
     ELSE Goes(t, IF pc[t] = "cfg_lock" THEN "cfg_locked" ELSE "rtcp_locked",
               local[t])
  /\ UNCHANGED <<priv, first_ssrc, emitted, stats_file, stats_rows,
                 stats_mutex, report, applied, srtp>>

\* A set_pt_clock_rate that returns from "Only one PT allowed" without
\* going through the unlock at end.
SetPtClockRate_failure_keeps_lock(t) ==
  /\ pc[t] = "cfg_locked"
  /\ \E out \in {kms_rtp_synchronizer_set_pt_clock_rate(
                   local[t].new_pt, local[t].new_clock_rate)} :
       /\ pt' = out.pt
       /\ clock_rate' = out.clock_rate
       /\ mutex' = IF out.ret THEN g_rec_mutex_unlock(t) ELSE mutex
  /\ Returns(t)
  /\ UNCHANGED <<feeded_sorted, ssrc, base, interpolate, rtp_ext_ts, rtcp,
                 sorted, first_ssrc, emitted, stats_file, stats_rows,
                 stats_mutex, report, applied, srtp>>

\* set_pt_clock_rate under the lock, to its return.
SetPtClockRate(t) ==
  /\ pc[t] = "cfg_locked"
  /\ \E out \in {kms_rtp_synchronizer_set_pt_clock_rate(
                   local[t].new_pt, local[t].new_clock_rate)} :
       /\ pt' = out.pt
       /\ clock_rate' = out.clock_rate
  /\ mutex' = g_rec_mutex_unlock(t)
  /\ Returns(t)
  /\ UNCHANGED <<feeded_sorted, ssrc, base, interpolate, rtp_ext_ts, rtcp,
                 sorted, first_ssrc, emitted, stats_file, stats_rows,
                 stats_mutex, report, applied, srtp>>

\* process_rtcp_packet under the lock: base_initiated is set by the first
\* Sender Report.
RtcpBaseInitiated(t) ==
  /\ pc[t] = "rtcp_locked"
  /\ IF ~base_initiated
     THEN /\ base_initiated' = TRUE
          /\ report' = [report EXCEPT !.base_written = FALSE]
          /\ Goes(t, "rtcp_base", local[t])
     ELSE /\ UNCHANGED <<base_initiated, report>>
          /\ Goes(t, "rtcp_ext", local[t])
  /\ UNCHANGED <<feeded_sorted, ssrc, config, base_ntp_time, base_sync_time,
                 interpolate, rtp_ext_ts, rtcp, sorted, first_ssrc, emitted,
                 stats_file, stats_rows, mutex, stats_mutex, applied, srtp>>

\* The two times of the base.
RtcpBase(t) ==
  /\ pc[t] = "rtcp_base"
  /\ base_ntp_time' = local[t].report.ntp_time
  /\ base_sync_time' = local[t].report.current_time
  /\ report' = [report EXCEPT !.base_written = TRUE]
  /\ Goes(t, "rtcp_ext", local[t])
  /\ UNCHANGED <<feeded_sorted, ssrc, config, base_initiated, interpolate,
                 rtp_ext_ts, rtcp, sorted, first_ssrc, emitted, stats_file,
                 stats_rows, mutex, stats_mutex, applied, srtp>>

\* last_rtcp_ext_ts = gst_rtp_buffer_ext_timestamp (&rtp_ext_ts, rtcp_ts).
RtcpExtTs(t) ==
  /\ pc[t] = "rtcp_ext"
  /\ \E ext \in {gst_rtp_buffer_ext_timestamp(rtp_ext_ts,
                                              local[t].report.rtcp_ts)} :
       /\ ExtBounded(ext.stored)
       /\ rtp_ext_ts' = ext.stored
       /\ last_rtcp_ext_ts' = ext.result
  /\ report' = [report EXCEPT !.ext = local[t].report]
  /\ Goes(t, "rtcp_ntp", local[t])
  /\ UNCHANGED <<feeded_sorted, ssrc, config, base, interpolate,
                 last_rtcp_ntp_time, sorted, first_ssrc, emitted, stats_file,
                 stats_rows, mutex, stats_mutex, applied, srtp>>

\* last_rtcp_ntp_time = ntp_time, the unlock and the return.
RtcpNtpTime(t) ==
  /\ pc[t] = "rtcp_ntp"
  /\ last_rtcp_ntp_time' = local[t].report.ntp_time
  /\ report' = [report EXCEPT !.ntp = local[t].report,
                              !.finished = local[t].report]
  /\ mutex' = g_rec_mutex_unlock(t)
  /\ Returns(t)
  /\ UNCHANGED <<feeded_sorted, ssrc, config, base, interpolate, rtp_ext_ts,
                 last_rtcp_ext_ts, sorted, first_ssrc, emitted, stats_file,
                 stats_rows, stats_mutex, applied, srtp>>

\* process_rtp_buffer_mapped under the lock, from the SSRC check to the
\* point where the regime has read the base and last_rtcp_ntp_time: the two
\* refusals (unlock and return FALSE), the tracker, the feeded-sorted
\* pre-check, the interpolation, and the NTP half of the synchronized
\* regime.
RtpEnter(t) ==
  /\ pc[t] = "rtp_locked"
  /\ LET packet == local[t].packet
         ext == gst_rtp_buffer_ext_timestamp(rtp_ext_ts, packet.ts)
         regression == is_regression(ext.result)
         took == [local[t] EXCEPT !.ext_ts = ext.result]
     IN  IF ssrc_mismatch(packet.ssrc)
         THEN /\ mutex' = g_rec_mutex_unlock(t)
              /\ Returns(t)
              /\ UNCHANGED priv
         ELSE /\ ssrc' = IF ssrc = 0 THEN packet.ssrc ELSE ssrc
              /\ IF pt_mismatch(packet.pt)
                 THEN /\ mutex' = g_rec_mutex_unlock(t)
                      /\ Returns(t)
                      /\ UNCHANGED <<feeded_sorted, interpolate, rtp_ext_ts>>
                 ELSE /\ ExtBounded(ext.stored)
                      /\ rtp_ext_ts' = ext.stored
                      /\ UNCHANGED mutex
                      /\ IF is_duplicate(ext.result)
                         THEN /\ Goes(t, "rtp_end",
                                      [took EXCEPT
                                         !.path = "duplicate",
                                         !.pts = duplicate_pts(packet.pts)])
                              /\ UNCHANGED <<feeded_sorted, interpolate>>
                         ELSE /\ feeded_sorted' = (feeded_sorted /\ ~regression)
                              /\ IF ~base_initiated
                                 THEN /\ base_initiated_logged' = TRUE
                                      /\ base_interpolate_initiated' = TRUE
                                      /\ base_interpolate_ext_ts' =
                                           IF ~base_interpolate_initiated
                                           THEN ext.result
                                           ELSE base_interpolate_ext_ts
                                      /\ base_interpolate_pts' =
                                           IF ~base_interpolate_initiated
                                           THEN packet.pts
                                           ELSE base_interpolate_pts
                                      /\ Goes(t, "rtp_fix",
                                           [took EXCEPT
                                              !.path = "interpolate",
                                              !.ret = ~regression,
                                              !.pts =
                                                IF ~base_interpolate_initiated
                                                THEN packet.pts
                                                ELSE kms_rtp_synchronizer_rtp_diff(
                                                       base_interpolate_pts,
                                                       ext.stored, clock_rate,
                                                       base_interpolate_ext_ts)])
                                 ELSE /\ UNCHANGED interpolate
                                      /\ Goes(t, "rtp_diff",
                                           [took EXCEPT
                                              !.path = "synchronized",
                                              !.ret = ~regression,
                                              !.moved = ntp_moved,
                                              !.read_ntp = report.ntp,
                                              !.base_written =
                                                 report.base_written])
  /\ UNCHANGED <<config, base, rtcp, sorted, first_ssrc, emitted, stats_file,
                 stats_rows, stats_mutex, report, applied, srtp>>

\* The call of rtp_diff_full that ends the synchronized regime: it reads the
\* tracker's counter, the clock rate and last_rtcp_ext_ts.
RtpDiff(t) ==
  /\ pc[t] = "rtp_diff"
  /\ Goes(t, "rtp_fix",
          [local[t] EXCEPT
             !.pts = kms_rtp_synchronizer_rtp_diff_full(
                       local[t].moved.pts, rtp_ext_ts, clock_rate,
                       last_rtcp_ext_ts, local[t].moved.wrapped_down,
                       local[t].moved.wrapped_up),
             !.read_ext = report.ext])
  /\ UNCHANGED <<priv, first_ssrc, emitted, stats_file, stats_rows, mutex,
                 stats_mutex, report, applied, srtp>>

\* The feeded-sorted fix and the two fields it keeps.
RtpFix(t) ==
  /\ pc[t] = "rtp_fix"
  /\ \E pts_fixed \in {fixed_pts(local[t].pts, feeded_sorted)} :
       /\ fs_last_rtp_ext_ts' =
            IF feeded_sorted THEN local[t].ext_ts ELSE fs_last_rtp_ext_ts
       /\ fs_last_pts' = IF feeded_sorted THEN pts_fixed ELSE fs_last_pts
       /\ Goes(t, "rtp_end", [local[t] EXCEPT !.pts = pts_fixed])
  /\ UNCHANGED <<feeded_sorted, ssrc, config, base, interpolate, rtp_ext_ts,
                 rtcp, first_ssrc, emitted, stats_file, stats_rows, mutex,
                 stats_mutex, report, applied, srtp>>

\* end: the copies for the stats row are taken, the lock is released and
\* write_stats is called; it returns at once when there is no stats file.
RtpEnd(t) ==
  /\ pc[t] = "rtp_end"
  /\ mutex' = g_rec_mutex_unlock(t)
  /\ IF stats_file
     THEN Goes(t, "stats_lock",
               [local[t] EXCEPT
                  !.behind = {u \in Threads : pc[u] = "stats_lock"}])
     ELSE Returns(t)
  /\ UNCHANGED <<priv, first_ssrc, emitted, stats_file, stats_rows,
                 stats_mutex, report, applied, srtp>>

\* A stats mutex that lets every thread in.
g_mutex_lock_no_exclusion(t) == TRUE

\* g_mutex_lock (&stats_mutex) returns to thread t: the mutex is free.
g_mutex_lock(t) == stats_mutex = 0

\* write_stats: g_mutex_lock (&stats_mutex), and g_fprintf begins the row
\* (the file is a sequence of half rows, each marked with its thread).
StatsLock(t) ==
  /\ pc[t] = "stats_lock"
  /\ g_mutex_lock(t)
  /\ stats_mutex' = t
  /\ stats_rows' = Append(stats_rows, t)
  /\ Goes(t, "stats_write", local[t])
  /\ UNCHANGED <<priv, first_ssrc, emitted, stats_file, mutex, report,
                 applied, srtp>>

\* write_stats: the rest of the row is printed, the stats mutex released,
\* and process_rtp_buffer returns.
StatsWrite(t) ==
  /\ pc[t] = "stats_write"
  /\ stats_rows' = Append(stats_rows, t)
  /\ stats_mutex' = IF stats_mutex = t THEN 0 ELSE stats_mutex
  /\ Returns(t)
  /\ UNCHANGED <<priv, first_ssrc, emitted, stats_file, mutex, report,
                 applied, srtp>>

\* The instance as kms_rtp_synchronizer_new returns it, with or without a
\* stats file.
InitThreads ==
  /\ InitPriv
  /\ NoCalls
  /\ stats_file \in BOOLEAN
  /\ applied = NoApplication
  /\ NoConnectionCalls

Calls(t, in) ==
  \/ \E new_pt \in in.new_pt, new_clock_rate \in in.new_clock_rate :
       CallSetPtClockRate(t, new_pt, new_clock_rate)
  \/ \E packet \in SenderReports(in), dts \in in.dts :
       CallProcessRtcp(t, packet, dts)
  \/ \E packet \in RtpPackets(in) : CallProcessRtp(t, packet)

NextThreads ==
  \E t \in Threads :
    \/ Calls(t, ThreadsInputs)
    \/ Lock(t)
    \/ SetPtClockRate(t)
    \/ RtcpBaseInitiated(t)
    \/ RtcpBase(t)
    \/ RtcpExtTs(t)
    \/ RtcpNtpTime(t)
    \/ RtpEnter(t)
    \/ RtpDiff(t)
    \/ RtpFix(t)
    \/ RtpEnd(t)
    \/ StatsLock(t)
    \/ StatsWrite(t)

SpecThreads == InitThreads /\ [][NextThreads]_vars

\* ------------------------------------------------------------ progress

\* The calls of two streams' packets on one instance, for the ways out of
\* the calls: two SSRCs, one payload type (turned down while no clock rate
\* is stored), one clock rate, two timestamps, one Sender Report.
ProgressInputs ==
  [ssrc |-> {1, 2}, pt |-> {96}, ts |-> {0, 1}, pts |-> {2},
   new_pt |-> {96}, new_clock_rate |-> {4},
   sr_ssrc |-> {1}, ntp |-> {0}, sr_ts |-> {0}, dts |-> {0}]

\* A step of thread t inside a call that waits for no lock.
Proceeds(t) ==
  \/ SetPtClockRate(t)
  \/ RtcpBaseInitiated(t)
  \/ RtcpBase(t)
  \/ RtcpExtTs(t)
  \/ RtcpNtpTime(t)
  \/ RtpEnter(t)
  \/ RtpDiff(t)
  \/ RtpFix(t)
  \/ RtpEnd(t)
  \/ StatsWrite(t)

NextProgress ==
  \E t \in Threads :
    \/ Calls(t, ProgressInputs)
    \/ Lock(t)
    \/ StatsLock(t)
    \/ Proceeds(t)

\* A thread inside a call goes on running, and the two locks are fair: a
\* thread that waits for a lock which is free again and again gets it.
\* Nothing makes a thread begin a call.
FairThreads ==
  \A t \in Threads :
    /\ WF_vars(Proceeds(t))
    /\ SF_vars(Lock(t))
    /\ SF_vars(StatsLock(t))

SpecProgress == InitThreads /\ [][NextProgress]_vars /\ FairThreads

\* -------------------------------------------------- rtp_diff_full on its own

\* The arguments kms_rtp_synchronizer_rtp_diff_full is applied to: every
\* PTS, every pair of extended timestamps within the model's bound, a clock
\* rate of 1 and of 4 ticks per second (an offset of up to G_MAXUINT64 and
\* beyond, and one of a few ns), and the wrap flags as the callers set them:
\* none (rtp_diff) or at most one (the NTP step moves the PTS one way).
DiffInputs ==
  {in \in [pts : 0 .. G_MAXUINT64, ext_ts : 0 .. ExtCap - 1, rate : {1, 4},
           base_ext_ts : 0 .. ExtCap - 1,
           wrapped_down : BOOLEAN, wrapped_up : BOOLEAN,
           done : {FALSE}, out : {0}] :
     ~(in.wrapped_down /\ in.wrapped_up)}

InitDiff ==
  /\ InitPriv
  /\ NoCalls
  /\ stats_file = FALSE
  /\ applied \in DiffInputs
  /\ NoConnectionCalls

\* One call of kms_rtp_synchronizer_rtp_diff_full.
ApplyDiff ==
  /\ ~applied.done
  /\ applied' =
       [applied EXCEPT
          !.done = TRUE,
          !.out = kms_rtp_synchronizer_rtp_diff_full(
                    applied.pts, applied.ext_ts, applied.rate,
                    applied.base_ext_ts, applied.wrapped_down,
                    applied.wrapped_up)]
  /\ UNCHANGED <<priv, first_ssrc, emitted, threads, srtp>>

NextDiff == ApplyDiff

SpecDiff == InitDiff /\ [][NextDiff]_vars

\* ------------------------------------------------------ srtp connection

\* The table of authentication names, auths[0] .. auths[2].
auths == <<NULL, <<"hmac-sha1-32">>, <<"hmac-sha1-80">>>>

\* The table of cipher names, ciphers[0] .. ciphers[2].
ciphers == <<NULL, <<"aes-128-icm">>, <<"aes-256-icm">>>>

G_N_ELEMENTS(arr) == Len(arr)

\* The name of an authentication, NULL for an index beyond the table.
get_str_auth(auth) ==
  IF auth < G_N_ELEMENTS(auths) THEN auths[auth + 1] ELSE NULL

\* The name of a cipher, NULL for an index beyond the table.
get_str_cipher(cipher) ==
  IF cipher < G_N_ELEMENTS(ciphers) THEN ciphers[cipher + 1] ELSE NULL

\* The bytes of four base64 characters, each character given by its place
\* in the base64 alphabet and the padding character '=' by 64.
base64_group(g) ==
  IF g[3] = 64
  THEN <<g[1] * 4 + g[2] \div 16>>
  ELSE IF g[4] = 64
       THEN <<g[1] * 4 + g[2] \div 16, (g[2] % 16) * 16 + g[3] \div 4>>
       ELSE <<g[1] * 4 + g[2] \div 16, (g[2] % 16) * 16 + g[3] \div 4,
              (g[3] % 4) * 64 + g[4]>>

RECURSIVE g_base64_decode(_)
\* The bytes a base64 text stands for.
g_base64_decode(text) ==
  IF Len(text) < 4
  THEN <<>>
  ELSE base64_group(SubSeq(text, 1, 4))
         \o g_base64_decode(SubSeq(text, 5, Len(text)))

\* create_key_caps, if an index without a name fell back to the first name
\* of its table.
create_key_caps_default_names(key_ssrc, key, auth, cipher) ==
  LET str_cipher ==
        IF get_str_cipher(cipher) = NULL THEN ciphers[2]
        ELSE get_str_cipher(cipher)
      str_auth ==
        IF get_str_auth(auth) = NULL THEN auths[2] ELSE get_str_auth(auth)
  IN  <<[name |-> "application/x-srtp",
         srtp_key |-> g_base64_decode(key[1]),
         srtp_cipher |-> str_cipher[1], srtp_auth |-> str_auth[1],
         srtcp_cipher |-> str_cipher[1], srtcp_auth |-> str_auth[1]]>>

\* The key caps of a stored key: NULL when the cipher or the authentication
\* has no name, else the decoded key with the two names, each for both SRTP
\* and SRTCP.
create_key_caps(key_ssrc, key, auth, cipher) ==
  LET str_cipher == get_str_cipher(cipher)
      str_auth == get_str_auth(auth)
  IN  IF str_cipher = NULL \/ str_auth = NULL
      THEN NULL
      ELSE <<[name |-> "application/x-srtp",
              srtp_key |-> g_base64_decode(key[1]),
              srtp_cipher |-> str_cipher[1], srtp_auth |-> str_auth[1],
              srtcp_cipher |-> str_cipher[1], srtcp_auth |-> str_auth[1]]>>

\* The body of the request-key callback under the lock: the connection
\* after it, and the caps it returns.
kms_srtp_connection_request_remote_key_cb(c, key_ssrc) ==
  IF ~c.r_key_set
  THEN [conn |-> c, caps |-> NULL]
  ELSE [conn |-> IF ~c.r_updated THEN c ELSE [c EXCEPT !.r_updated = FALSE],
        caps |-> create_key_caps(key_ssrc, c.r_key, c.r_auth, c.r_cipher)]

\* The remote set_key, if it stored and flagged every key it is given.
set_key_without_compare(c, key, auth, cipher) ==
  [r_key |-> key, r_auth |-> auth, r_cipher |-> cipher,
   r_updated |-> TRUE, r_key_set |-> TRUE]

\* The body of a remote set_key under the lock: the connection after it.
kms_srtp_connection_set_key(c, key, auth, cipher) ==
  LET changed ==
        \/ ~c.r_key_set
        \/ key # c.r_key
        \/ c.r_auth # auth
        \/ c.r_cipher # cipher
  IN  IF changed
      THEN [r_key |-> key, r_auth |-> auth, r_cipher |-> cipher,
            r_updated |-> TRUE, r_key_set |-> TRUE]
      ELSE c

\* The properties a local set_key gives conn->srtpenc.
set_local_key(key, auth, cipher) ==
  [key |-> <<g_base64_decode(key[1])>>, cipher |-> cipher, auth |-> auth]

\* Thread t of the connection goes to position p with the locals l.
ConnGoes(t, p, l) ==
  /\ conn_pc' = [conn_pc EXCEPT ![t] = p]
  /\ conn_local' = [conn_local EXCEPT ![t] = l]

\* kms_srtp_connection_set_key is called for the local side: the key goes
\* to srtpenc, and neither the lock nor an r_* field is touched.
SetLocalKey(t, key, auth, cipher) ==
  /\ conn_pc[t] = "idle"
  /\ srtpenc' = set_local_key(key, auth, cipher)
  /\ UNCHANGED <<priv, first_ssrc, emitted, threads, applied, conn,
                 conn_mutex, conn_pc, conn_local, key_caps>>

\* kms_srtp_connection_set_key is called for the remote side and comes to
\* the lock.
CallSetKey(t, key, auth, cipher) ==
  /\ conn_pc[t] = "idle"
  /\ ConnGoes(t, "set_key_lock",
              [op |-> "set_key", key |-> key, auth |-> auth,
               cipher |-> cipher])
  /\ UNCHANGED <<priv, first_ssrc, emitted, threads, applied, conn,
                 srtpenc, conn_mutex, key_caps>>

\* srtpdec emits request-key on thread t, and the callback comes to the
\* lock.
CallRequestRemoteKey(t, key_ssrc) ==
  /\ conn_pc[t] = "idle"
  /\ ConnGoes(t, "request_key_lock",
              [op |-> "request_key", ssrc |-> key_ssrc])
  /\ UNCHANGED <<priv, first_ssrc, emitted, threads, applied, conn,
                 srtpenc, conn_mutex, key_caps>>

\* The lock is taken by one thread at a time.
KMS_RTP_BASE_CONNECTION_LOCK(t) == conn_mutex = 0

\* Thread t takes the connection's lock.
ConnLock(t) ==
  /\ conn_pc[t] \in {"set_key_lock", "request_key_lock"}
  /\ KMS_RTP_BASE_CONNECTION_LOCK(t)
  /\ conn_mutex' = t
  /\ ConnGoes(t, IF conn_pc[t] = "set_key_lock"
                 THEN "set_key_locked"
                 ELSE "request_key_locked", conn_local[t])
  /\ UNCHANGED <<priv, first_ssrc, emitted, threads, applied, conn,
                 srtpenc, key_caps>>

\* The remote set_key of thread t compares, stores, unlocks and returns.
SetRemoteKey(t) ==
  /\ conn_pc[t] = "set_key_locked"
  /\ conn' = kms_srtp_connection_set_key(
               conn, conn_local[t].key, conn_local[t].auth,
               conn_local[t].cipher)
  /\ conn_mutex' = 0
  /\ ConnGoes(t, "idle", NoLocal)
  /\ UNCHANGED <<priv, first_ssrc, emitted, threads, applied, srtpenc,
                 key_caps>>

\* The request-key callback of thread t looks at the stored key, unlocks
\* and returns its caps.
RequestRemoteKey(t) ==
  /\ conn_pc[t] = "request_key_locked"
  /\ \E out \in {kms_srtp_connection_request_remote_key_cb(
                   conn, conn_local[t].ssrc)} :
       /\ conn' = out.conn
       /\ key_caps' = [returned |-> TRUE, caps |-> out.caps]
  /\ conn_mutex' = 0
  /\ ConnGoes(t, "idle", NoLocal)
  /\ UNCHANGED <<priv, first_ssrc, emitted, threads, applied, srtpenc>>

\* Two keys as base64 text: "QUI=" (the bytes 65, 66) and "Qg==" (the byte
\* 66).
SrtpKeys == {<<<<16, 20, 8, 64>>>>, <<<<16, 32, 64, 64>>>>}

\* The calls made on the connection. For the remote side: two keys, and
\* of the indices an authentication and a cipher may have, the one without
\* a name (0), one with a name (1 of the authentications, 2 of the ciphers)
\* and one beyond the table (3). For the local side, whose values go to
\* srtpenc alone: one key, authentication and cipher. One SSRC.
SrtpInputs ==
  [key |-> SrtpKeys, auth |-> {0, 1, 3}, cipher |-> {0, 2, 3},
   local_key |-> {<<<<16, 32, 64, 64>>>>}, local_auth |-> {1},
   local_cipher |-> {2}, ssrc |-> {1}]

NextSrtp ==
  \E t \in Threads :
    \/ \E key \in SrtpInputs.local_key, auth \in SrtpInputs.local_auth,
          cipher \in SrtpInputs.local_cipher :
         SetLocalKey(t, key, auth, cipher)
    \/ \E key \in SrtpInputs.key, auth \in SrtpInputs.auth,
          cipher \in SrtpInputs.cipher :
         CallSetKey(t, key, auth, cipher)
    \/ \E key_ssrc \in SrtpInputs.ssrc : CallRequestRemoteKey(t, key_ssrc)
    \/ ConnLock(t)
    \/ SetRemoteKey(t)
    \/ RequestRemoteKey(t)

SpecSrtp == Init /\ [][NextSrtp]_vars

\* ------------------------------------------------------------ claims

\* What handing an RTP packet to the instance in its current state gives.
Handled(packet) ==
  kms_rtp_synchronizer_process_rtp_buffer_mapped(packet.ssrc, packet.pt,
                                                 packet.ts, packet.pts)

\* The call stays within the model's bound on the extended timestamp.
InBound(out) == ExtBounded(out.rtp_ext_ts)

\* The call is the one that sees an accepted packet behind the last one
\* while in sorted mode.
SeesRegression(out) ==
  /\ feeded_sorted
  /\ Accepted(out)
  /\ GST_CLOCK_TIME_IS_VALID(fs_last_rtp_ext_ts)
  /\ out.ext_ts < fs_last_rtp_ext_ts

Clamp(x) == IF x < 0 THEN 0 ELSE IF x > G_MAXUINT64 THEN G_MAXUINT64 ELSE x

\* The PTS of the synchronized regime in unbounded integers, for a packet
\* with extended timestamp r.
ExactSynchronizedPts(r) ==
  base_sync_time + (last_rtcp_ntp_time - base_ntp_time)
  + (IF r >= last_rtcp_ext_ts
     THEN ((r - last_rtcp_ext_ts) * GST_SECOND) \div clock_rate
     ELSE 0 - (((last_rtcp_ext_ts - r) * GST_SECOND) \div clock_rate))

\* C1: once a Sender Report has been processed, the PTS process_rtp computes
\* for a packet (before the sorted-mode fix) is the exact value
\* base_sync_time + (last_rtcp_ntp_time - base_ntp_time)
\* +/- |r - last_rtcp_ext_ts| * GST_SECOND / clock_rate, clamped to
\* [0, G_MAXUINT64], r being the packet's extended timestamp.  The packets
\* looked at are those whose extended timestamp the tracker took over as its
\* counter, so that r is the value the arithmetic is given.
C1_SynchronizedPtsExact ==
  \A packet \in RtpPackets(TimingInputs) :
    \A out \in {Handled(packet)} :
      /\ out.path = "synchronized"
      /\ InBound(out)
      /\ out.ext_ts = out.rtp_ext_ts
      => out.computed = Clamp(ExactSynchronizedPts(out.ext_ts))

\* C2: in sorted mode, up to the first demotion, the PTS of each RTP packet
\* that passes the checks is at least the PTS of the one before.
C2_SortedPtsNonDecreasing ==
  [][emitted.valid /\ emitted'.valid => emitted'.pts >= emitted.pts]_vars

\* C3: in sorted mode, a packet whose extended timestamp equals that of the
\* packet before leaves with exactly the PTS of the packet before, whatever
\* its arrival PTS and whatever Sender Reports came in between.
C3_DuplicateKeepsPts ==
  \A packet \in RtpPackets(TimingInputs) :
    \A out \in {Handled(packet)} :
      /\ feeded_sorted
      /\ emitted.valid
      /\ Accepted(out)
      /\ InBound(out)
      /\ out.ext_ts = emitted.ext_ts
      => out.pts = emitted.pts

\* C4: once the first Sender Report has been processed, base_initiated stays
\* TRUE and base_ntp_time and base_sync_time keep the values that Sender
\* Report gave them (its NTP time in nanoseconds and the DTS of its buffer),
\* whatever is called afterwards.
C4_BaseFrozen ==
  [][/\ base_initiated => UNCHANGED base
     /\ ~base_initiated /\ base_initiated'
          => \E buffer \in RtcpBuffers(TimingInputs), dts \in TimingInputs.dts :
               /\ RtcpCall(buffer, dts)
               /\ buffer.packets # <<>>
               /\ buffer.packets[1].type = GST_RTCP_TYPE_SR
               /\ base_ntp_time' = (buffer.packets[1].ntp_ts * GST_SECOND)
                                     \div WRAP32
               /\ base_sync_time' = dts]_vars

\* A base captured by one Sender Report and kept through a later one with
\* another NTP time and another DTS.
C4_Witness ==
  /\ base_initiated
  /\ last_rtcp_ntp_time # base_ntp_time
  /\ first_ssrc.seen

\* C5: set_pt_clock_rate fails with INVALID_DATA exactly when clock_rate <= 0
\* or a clock rate is already stored, a failed call leaves pt and clock_rate
\* as they were, pt and clock_rate change at most once, and the stored
\* clock_rate is 0 or the positive value of the one successful call.
C5_ConfigureOnce ==
  [][/\ \A new_pt \in ChecksInputs.new_pt,
           new_clock_rate \in ChecksInputs.new_clock_rate :
          \A out \in {kms_rtp_synchronizer_set_pt_clock_rate(
                        new_pt, new_clock_rate)} :
            /\ ~out.ret <=> (new_clock_rate <= 0 \/ clock_rate # 0)
            /\ ~out.ret => out.error = "INVALID_DATA"
            /\ ~out.ret /\ ConfigureCall(new_pt, new_clock_rate)
                 => UNCHANGED config
            /\ out.ret /\ ConfigureCall(new_pt, new_clock_rate)
                 => pt' = new_pt /\ clock_rate' = new_clock_rate
     /\ clock_rate # 0 => UNCHANGED config
     /\ config' # config => clock_rate = 0 /\ clock_rate' > 0
     /\ clock_rate >= 0 /\ clock_rate' >= 0]_vars

\* A configured instance on which a second call with the very same arguments
\* fails.
C5_Witness ==
  /\ clock_rate > 0
  /\ ~kms_rtp_synchronizer_set_pt_clock_rate(pt, clock_rate).ret

\* C6: an RTP packet whose ssrc differs from the one learned from the first
\* RTP packet makes process_rtp fail with INVALID_DATA and keeps its PTS.
C6_ForeignSsrcRejected ==
  \A packet \in RtpPackets(ChecksInputs) :
    \A out \in {Handled(packet)} :
      first_ssrc.seen /\ packet.ssrc # first_ssrc.ssrc
        => /\ ~out.ret
           /\ out.error = "INVALID_DATA"
           /\ out.pts = packet.pts

\* C7: the stored ssrc is that of the first RTP packet handed to
\* process_rtp, whatever its value, and never changes afterwards.
C7_SsrcLearnedOnce ==
  first_ssrc.seen => ssrc = first_ssrc.ssrc

\* C8: feeded_sorted changes only from TRUE to FALSE, never back, and
\* exactly in the process_rtp call that sees an accepted packet with an
\* extended timestamp below fs_last_rtp_ext_ts while in sorted mode.
C8_DemotionOnlyOnRegression ==
  /\ [](\A packet \in RtpPackets(TimingInputs) :
          \A out \in {Handled(packet)} :
            InBound(out)
              => out.feeded_sorted = (feeded_sorted /\ ~SeesRegression(out)))
  /\ [][/\ ~feeded_sorted => ~feeded_sorted'
        /\ feeded_sorted' # feeded_sorted
             => \E packet \in RtpPackets(TimingInputs) :
                  /\ SeesRegression(Handled(packet))
                  /\ RtpCall(packet.ssrc, packet.pt, packet.ts,
                             packet.pts)]_vars

\* An instance demoted by a packet behind the last sorted one: the tracker
\* has followed the packet back.
C8_Witness ==
  /\ ~feeded_sorted
  /\ GST_CLOCK_TIME_IS_VALID(fs_last_rtp_ext_ts)
  /\ rtp_ext_ts < fs_last_rtp_ext_ts

\* C9: the process_rtp call that sees a sorted-mode regression returns FALSE
\* with INVALID_DATA, demotes the instance, and leaves the packet with the
\* PTS of the current regime, as an instance that is not in sorted mode
\* computes it: neither fs_last_pts nor the fix is applied.
C9_RegressionStillComputesPts ==
  \A packet \in RtpPackets(TimingInputs) :
    \A out \in {Handled(packet)} :
      SeesRegression(out) /\ InBound(out)
        => /\ ~out.ret
           /\ out.error = "INVALID_DATA"
           /\ ~out.feeded_sorted
           /\ out.pts = regime_pts(out.rtp_ext_ts, packet.pts)
           /\ out.fs_last_pts = fs_last_pts
           /\ out.fs_last_rtp_ext_ts = fs_last_rtp_ext_ts

\* A regression whose regime PTS lies below fs_last_pts, which the fix of
\* sorted mode would have raised.
C9_Witness ==
  \E packet \in RtpPackets(TimingInputs) :
    \E out \in {Handled(packet)} :
      /\ SeesRegression(out)
      /\ InBound(out)
      /\ GST_CLOCK_TIME_IS_VALID(fs_last_pts)
      /\ out.pts < fs_last_pts

\* The buffers that are empty or whose first packet is not a Sender Report.
NoLeadingSenderReport ==
  {buffer \in RtcpBuffers(TimingInputs) :
     /\ buffer.mappable
     /\ buffer.packets = <<>> \/ buffer.packets[1].type # GST_RTCP_TYPE_SR}

\* C10: process_rtcp_buffer returns TRUE and changes no field of the
\* instance when the buffer is empty or its first packet is not a Sender
\* Report, also when a later packet of the buffer is one.
C10_NonSrFirstPacketNoEffect ==
  \A buffer \in NoLeadingSenderReport, dts \in TimingInputs.dts :
    /\ kms_rtp_synchronizer_process_rtcp_buffer(buffer, dts).ret
    /\ kms_rtp_synchronizer_process_rtcp_buffer(buffer, dts).error = "none"
    /\ ENABLED RtcpCall(buffer, dts)
    /\ ~ENABLED (RtcpCall(buffer, dts) /\ priv' # priv)

\* A state in which a compound buffer of a Receiver Report followed by a
\* Sender Report is left alone although that Sender Report, handed over
\* alone, moves the anchors.
C10_Witness ==
  /\ base_initiated
  /\ \E buffer \in RtcpBuffers(TimingInputs), dts \in TimingInputs.dts :
       /\ Len(buffer.packets) = 2
       /\ buffer.packets[1].type = GST_RTCP_TYPE_RR
       /\ buffer.packets[2].type = GST_RTCP_TYPE_SR
       /\ kms_rtp_synchronizer_process_rtcp_buffer(buffer, dts).fields
            = rtcp_unchanged
       /\ kms_rtp_synchronizer_process_rtcp_packet(buffer.packets[2], dts)
            # rtcp_unchanged

\* C11: a call of process_rtp_buffer turned down for its SSRC, its payload
\* type or the unset clock rate leaves every field of the instance as it was:
\* the learned SSRC, the tracker's counter, the interpolation base, the
\* sorted-mode fields and feeded_sorted (the call writes no other field).
C11_RejectedCallChangesNothing ==
  \A packet \in RtpPackets(ChecksInputs) :
    \A out \in {Handled(packet)} :
      ~Accepted(out)
        => /\ out.ssrc = ssrc
           /\ out.rtp_ext_ts = rtp_ext_ts
           /\ out.feeded_sorted = feeded_sorted
           /\ out.base_initiated_logged = base_initiated_logged
           /\ out.base_interpolate_initiated = base_interpolate_initiated
           /\ out.base_interpolate_ext_ts = base_interpolate_ext_ts
           /\ out.base_interpolate_pts = base_interpolate_pts
           /\ out.fs_last_rtp_ext_ts = fs_last_rtp_ext_ts
           /\ out.fs_last_pts = fs_last_pts

\* No call of set_pt_clock_rate has succeeded yet.
NotConfigured == clock_rate = 0

\* C12: a packet whose payload type is not the configured one, or any packet
\* (payload type 0 included) before a call of set_pt_clock_rate has
\* succeeded, is turned down with INVALID_DATA and its buffer keeps the PTS it
\* came with.
C12_UnexpectedPtRejected ==
  \A packet \in RtpPackets(ChecksInputs) :
    \A out \in {Handled(packet)} :
      packet.pt # pt \/ NotConfigured
        => /\ ~out.ret
           /\ out.error = "INVALID_DATA"
           /\ ~Accepted(out)
           /\ out.pts = packet.pts

\* A packet went through the SSRC check and was turned down before any
\* configuration.
C12_Witness == first_ssrc.seen /\ ssrc # 0 /\ NotConfigured

\* C15: once a Sender Report has been processed, the PTS given to a packet
\* in unsorted mode is the function of base_sync_time, base_ntp_time,
\* last_rtcp_ntp_time, last_rtcp_ext_ts, clock_rate and the packet's own
\* extended timestamp, whatever the packets and the buffer times before it.
C15_SynchronizedPtsFromPacketTimestamp ==
  \A packet \in RtpPackets(TimingInputs) :
    \A out \in {Handled(packet)} :
      base_initiated /\ Accepted(out) /\ ~out.feeded_sorted /\ InBound(out)
        => out.pts = synchronized_pts(out.ext_ts)

\* The PTS of the interpolation regime in unbounded integers, for a packet
\* with extended timestamp r.
ExactInterpolatedPts(r) ==
  base_interpolate_pts
  + (IF r >= base_interpolate_ext_ts
     THEN ((r - base_interpolate_ext_ts) * GST_SECOND) \div clock_rate
     ELSE 0 - (((base_interpolate_ext_ts - r) * GST_SECOND) \div clock_rate))

\* C16: while no Sender Report has been processed, the first accepted packet
\* keeps the PTS its buffer came with and sets the interpolation base to its
\* extended timestamp and that PTS; every later accepted packet leaves the
\* base alone and gets base_interpolate_pts
\* +/- |r - base_interpolate_ext_ts| * GST_SECOND / clock_rate, clamped to
\* [0, G_MAXUINT64], r being its extended timestamp, whatever PTS its buffer
\* came with.  Stated for the unsorted mode, where no fix follows.
C16_InterpolatedPtsFromAnchor ==
  \A packet \in RtpPackets(TimingInputs) :
    \A out \in {Handled(packet)} :
      ~base_initiated /\ Accepted(out) /\ ~out.feeded_sorted /\ InBound(out)
        => IF ~base_interpolate_initiated
           THEN /\ out.pts = packet.pts
                /\ out.base_interpolate_initiated
                /\ out.base_interpolate_ext_ts = out.ext_ts
                /\ out.base_interpolate_pts = packet.pts
           ELSE /\ out.pts = Clamp(ExactInterpolatedPts(out.ext_ts))
                /\ out.base_interpolate_initiated
                /\ out.base_interpolate_ext_ts = base_interpolate_ext_ts
                /\ out.base_interpolate_pts = base_interpolate_pts

\* C18: in the synchronized regime, when the NTP offset and the scaled RTP
\* offset together are a subtraction larger than base_sync_time, the packet
\* leaves with PTS 0.  Stated for the unsorted mode, where no fix follows,
\* and for the calls in which the tracker stores the extended timestamp it
\* returns.
C18_NetSubtractionGivesZero ==
  \A packet \in RtpPackets(TimingInputs) :
    \A out \in {Handled(packet)} :
      /\ base_initiated /\ Accepted(out) /\ ~out.feeded_sorted
      /\ InBound(out) /\ out.ext_ts = out.rtp_ext_ts
      /\ ExactSynchronizedPts(out.ext_ts) < 0
      => out.pts = 0

\* The synchronized regime with a base one below the top of the range and
\* the last Sender Report more than 1 ns of NTP time after the first.
NearTopMovedForward ==
  /\ base_initiated
  /\ base_sync_time = G_MAXUINT64 - 1
  /\ last_rtcp_ntp_time > base_ntp_time
  /\ last_rtcp_ntp_time - base_ntp_time > 1

\* C19, as stated: with base_sync_time = G_MAXUINT64 - 1 and an NTP offset
\* forward of more than 1, every accepted packet whose extended timestamp is
\* at or ahead of last_rtcp_ext_ts leaves with PTS G_MAXUINT64.  Stated for
\* the states in which the PTS kept of the last sorted packet, if any, is a
\* valid time (the PTS G_MAXUINT64 is not one, see C3).
C19_EmittedPtsSaturatesAtTop ==
  \A packet \in RtpPackets(TimingInputs) :
    \A out \in {Handled(packet)} :
      /\ NearTopMovedForward /\ Accepted(out) /\ InBound(out)
      /\ out.ext_ts >= last_rtcp_ext_ts
      /\ GST_CLOCK_TIME_IS_VALID(fs_last_rtp_ext_ts)
           => GST_CLOCK_TIME_IS_VALID(fs_last_pts)
      => out.pts = G_MAXUINT64

\* C19, amended: with base_sync_time = G_MAXUINT64 - 1 and an NTP offset
\* forward of more than 1, every accepted packet whose extended timestamp is
\* at or ahead of last_rtcp_ext_ts, and which does not repeat the timestamp
\* of the packet before it in sorted mode, leaves with PTS G_MAXUINT64 and
\* never with a wrapped small value.
C19_ComputedPtsSaturatesAtTop ==
  \A packet \in RtpPackets(TimingInputs) :
    \A out \in {Handled(packet)} :
      /\ NearTopMovedForward /\ Accepted(out) /\ InBound(out)
      /\ out.ext_ts >= last_rtcp_ext_ts
      /\ ~is_duplicate(out.ext_ts)
      => out.pts = G_MAXUINT64 /\ out.computed = G_MAXUINT64

\* Near the top and moved forward, a packet at the last Sender Report's
\* timestamp and one ahead of it, neither a repeat, are at hand.
C19_Witness ==
  /\ NearTopMovedForward
  /\ \E packet \in RtpPackets(TimingInputs) :
       \E out \in {Handled(packet)} :
         /\ Accepted(out) /\ InBound(out) /\ ~is_duplicate(out.ext_ts)
         /\ out.ext_ts = last_rtcp_ext_ts
  /\ \E packet \in RtpPackets(TimingInputs) :
       \E out \in {Handled(packet)} :
         /\ Accepted(out) /\ InBound(out) /\ ~is_duplicate(out.ext_ts)
         /\ out.ext_ts > last_rtcp_ext_ts

\* The tracker has not been called yet: no Sender Report and no accepted
\* packet has been processed.
NeverFed == ~base_initiated /\ ~base_interpolate_initiated

\* How far a 32-bit timestamp is ahead of the tracker's counter, modulo the
\* range of the timestamp.
TicksAhead(timestamp) == (timestamp - rtp_ext_ts) % WRAP32

\* C20: the first timestamp given to the tracker comes back zero-extended;
\* a timestamp ahead of the one before by fewer than 2^31 ticks modulo 2^32
\* (1 .. G_MAXINT32) comes back as the extended timestamp before plus that
\* many ticks, and the tracker stores it: a sequence of such timestamps
\* gives a strictly ascending sequence with the differences of the 32-bit
\* timestamps.
C20_TrackerAscending ==
  \A packet \in RtpPackets(TimingInputs) :
    \A out \in {Handled(packet)} :
      Accepted(out)
        => IF NeverFed
           THEN out.ext_ts = packet.ts /\ out.rtp_ext_ts = packet.ts
           ELSE TicksAhead(packet.ts) \in 1 .. G_MAXINT32
                  => /\ out.ext_ts = rtp_ext_ts + TicksAhead(packet.ts)
                     /\ out.ext_ts > rtp_ext_ts
                     /\ out.rtp_ext_ts = out.ext_ts

\* The counter stands at the last timestamp before a wraparound and the
\* packet with timestamp 0 is taken one tick ahead of it, in the next
\* wraparound.
C20_Witness ==
  /\ ~NeverFed
  /\ rtp_ext_ts % WRAP32 = G_MAXUINT32
  /\ \E packet \in RtpPackets(TimingInputs) :
       \E out \in {Handled(packet)} :
         /\ Accepted(out) /\ InBound(out)
         /\ packet.ts = 0
         /\ out.ext_ts = rtp_ext_ts + 1

\* The magnitude of the RTP offset of the application, in ns.
AppliedOffset ==
  gst_util_uint64_scale(
    IF applied.ext_ts > applied.base_ext_ts
    THEN applied.ext_ts - applied.base_ext_ts
    ELSE applied.base_ext_ts - applied.ext_ts, GST_SECOND, applied.rate)

Adding == applied.ext_ts > applied.base_ext_ts
Subtracting == applied.ext_ts < applied.base_ext_ts

\* C17, as stated: on a PTS p with an offset of magnitude d the step gives
\* G_MAXUINT64 when adding with d > G_MAXUINT64 - p and wrapped_up; 0 when
\* adding with wrapped_down and d < G_MAXUINT64 - p; 0 when subtracting with
\* d > p and not wrapped_up; G_MAXUINT64 when subtracting with wrapped_up
\* and d < p; p + d or p - d (in guint64 arithmetic) in every other add or
\* subtract case; with no offset, 0 or G_MAXUINT64 if a wrap flag is set and
\* p otherwise.
C17_OffsetStepAsTabulated ==
  applied.done
    => LET p == applied.pts
           d == AppliedOffset
       IN  IF Adding
           THEN IF applied.wrapped_up /\ d > G_MAXUINT64 - p
                THEN applied.out = G_MAXUINT64
                ELSE IF applied.wrapped_down /\ d < G_MAXUINT64 - p
                THEN applied.out = 0
                ELSE applied.out = U64(p + d)
           ELSE IF Subtracting
           THEN IF ~applied.wrapped_up /\ d > p
                THEN applied.out = 0
                ELSE IF applied.wrapped_up /\ d < p
                THEN applied.out = G_MAXUINT64
                ELSE applied.out = U64(p - d)
           ELSE IF applied.wrapped_down \/ applied.wrapped_up
                THEN applied.out \in {0, G_MAXUINT64}
                ELSE applied.out = p

\* C17, amended: a set flag of the step's direction decides alone, and the
\* overflow of the range saturates without a flag.  Adding: G_MAXUINT64 if
\* wrapped_up; else 0 if wrapped_down and d < G_MAXUINT64 - p; else
\* G_MAXUINT64 if not wrapped_down and d > G_MAXUINT64 - p; else p + d
\* modulo 2^64.  Subtracting: 0 if wrapped_down; else G_MAXUINT64 if
\* wrapped_up and d < p; else 0 if not wrapped_up and d > p; else p - d
\* modulo 2^64.  No offset: 0 if wrapped_down, else G_MAXUINT64 if
\* wrapped_up, else p.
C17_OffsetStepFlagFirst ==
  applied.done
    => LET p == applied.pts
           d == AppliedOffset
           up == applied.wrapped_up
           down == applied.wrapped_down
       IN  applied.out =
             CASE Adding /\ up -> G_MAXUINT64
               [] Adding /\ ~up /\ down /\ d < G_MAXUINT64 - p -> 0
               [] Adding /\ ~up /\ down /\ d >= G_MAXUINT64 - p ->
                    (p + d) % (G_MAXUINT64 + 1)
               [] Adding /\ ~up /\ ~down /\ d > G_MAXUINT64 - p ->
                    G_MAXUINT64
               [] Adding /\ ~up /\ ~down /\ d <= G_MAXUINT64 - p -> p + d
               [] Subtracting /\ down -> 0
               [] Subtracting /\ ~down /\ up /\ d < p -> G_MAXUINT64
               [] Subtracting /\ ~down /\ up /\ d >= p ->
                    (p - d) % (G_MAXUINT64 + 1)
               [] Subtracting /\ ~down /\ ~up /\ d > p -> 0
               [] Subtracting /\ ~down /\ ~up /\ d <= p -> p - d
               [] ~Adding /\ ~Subtracting /\ down -> 0
               [] ~Adding /\ ~Subtracting /\ ~down /\ up -> G_MAXUINT64
               [] ~Adding /\ ~Subtracting /\ ~down /\ ~up -> p

\* The step has added an offset that stays within the range to a PTS that
\* had wrapped up: the result is G_MAXUINT64, not p + d.
C17_Witness ==
  /\ applied.done
  /\ Adding
  /\ applied.wrapped_up /\ ~applied.wrapped_down
  /\ AppliedOffset > 0
  /\ AppliedOffset < G_MAXUINT64 - applied.pts
  /\ applied.out = G_MAXUINT64

\* Thread t is in process_rtp_buffer past the synchronized regime's
\* computation, still under the lock.
ComputedSynchronized(t) ==
  /\ pc[t] \in {"rtp_fix", "rtp_end"}
  /\ local[t].path = "synchronized"

\* C13: with threads calling at once, the PTS a process_rtp call computes in
\* the synchronized regime comes from one Sender Report: the last_rtcp_ext_ts
\* and the last_rtcp_ntp_time it read were written by the same call of
\* process_rtcp, the base it read had both its times, and that Sender Report
\* is the last one whose call had returned when the thread got the instance
\* lock; the PTS and the return value are those of the call run alone in the
\* state the thread found at the lock.
C13_OneAnchorSnapshot ==
  \A t \in Threads :
    /\ ComputedSynchronized(t)
         => /\ local[t].read_ntp = local[t].read_ext
            /\ local[t].read_ext = local[t].at_lock
            /\ local[t].at_lock # NoReport
            /\ local[t].base_written
            /\ local[t].expect.path = "synchronized"
            /\ pc[t] = "rtp_fix" => local[t].pts = local[t].expect.computed
    /\ pc[t] = "rtp_end" /\ local[t].op = "process_rtp"
         => /\ local[t].pts = local[t].expect.pts
            /\ local[t].ret = local[t].expect.ret
            /\ local[t].path = local[t].expect.path

\* A thread has computed a PTS from a Sender Report that was not the first
\* while the other thread waits for the lock with the next Sender Report.
C13_Witness ==
  \E t \in Threads, u \in Threads :
    /\ ComputedSynchronized(t)
    /\ local[t].at_lock.ntp_time # base_ntp_time
    /\ pc[u] = "rtcp_lock"
    /\ local[u].report # local[t].at_lock

\* Thread t is inside write_stats.
InWriteStats(t) == pc[t] \in {"stats_lock", "stats_write"}

\* C14: no thread holds the stats mutex together with the instance lock,
\* and a thread inside write_stats, where the row is written, has released
\* the instance lock.
C14_LocksNeverNested ==
  \A t \in Threads :
    /\ ~(mutex = t /\ stats_mutex = t)
    /\ InWriteStats(t) => mutex # t
    /\ stats_mutex = t => pc[t] = "stats_write"
    /\ mutex = t => ~InWriteStats(t)

\* One thread writes its row, holding the stats mutex, while the other is
\* in a call under the instance lock.
C14_Witness ==
  \E t \in Threads, u \in Threads :
    /\ stats_mutex = t
    /\ pc[t] = "stats_write"
    /\ mutex = u
    /\ u # t

\* Scenario S5, scaled: no Sender Report yet, the interpolation base at the
\* last timestamp before the first wraparound, and the tracker's counter
\* still there (the packet looked at is the next one).
AnchorBeforeWrap ==
  /\ ~base_initiated
  /\ base_interpolate_initiated
  /\ base_interpolate_ext_ts = G_MAXUINT32
  /\ rtp_ext_ts = base_interpolate_ext_ts

C22_SenderReportMovesTracker ==
  \A packet \in SenderReports(TimingInputs), dts \in TimingInputs.dts :
    \A out \in {kms_rtp_synchronizer_process_rtcp_packet(packet, dts)} :
      InBound(out)
        => /\ out.last_rtcp_ntp_time
                = (packet.ntp_ts * GST_SECOND) \div WRAP32
           /\ out.last_rtcp_ext_ts
                = gst_rtp_buffer_ext_timestamp(rtp_ext_ts,
                                               packet.rtp_ts).result
           /\ out.last_rtcp_ext_ts = out.rtp_ext_ts

\* C23: while the instance is in sorted mode, every process_rtp call that
\* returns TRUE leaves (fs_last_rtp_ext_ts, fs_last_pts) at the extended
\* timestamp of its packet and the PTS written to its buffer; a computed PTS
\* below the PTS of the packet before is replaced by that PTS, and a packet
\* with the timestamp of the packet before receives that packet's PTS and
\* leaves the pair as it was.
C23_SortedPairIsLastPacket ==
  feeded_sorted
    => \A packet \in RtpPackets(TimingInputs) :
         \A out \in {Handled(packet)} :
           Accepted(out) /\ out.ret /\ InBound(out)
             => /\ out.fs_last_rtp_ext_ts = out.ext_ts
                /\ out.fs_last_pts = out.pts
                /\ emitted.valid /\ out.ext_ts > emitted.ext_ts
                     /\ out.computed < emitted.pts
                     => out.pts = emitted.pts
                /\ emitted.valid /\ out.ext_ts = emitted.ext_ts
                     => /\ out.pts = emitted.pts
                        /\ out.fs_last_rtp_ext_ts = fs_last_rtp_ext_ts
                        /\ out.fs_last_pts = fs_last_pts

\* The stats file is a sequence of whole rows: each half row is followed by
\* the other half of the same thread, but for a last one whose thread is
\* still printing.
WholeRows ==
  \A i \in 1 .. Len(stats_rows) :
    i % 2 = 1
      => IF i < Len(stats_rows)
         THEN stats_rows[i + 1] = stats_rows[i]
         ELSE pc[stats_rows[i]] = "stats_write"

\* What thread t has printed to the stats file since its call of
\* process_rtp began, in half rows.
PrintedInCall(t) == PrintedBy(t) - local[t].printed

\* C24: with a stats file, each call of process_rtp that passes the SSRC,
\* payload type and clock rate checks prints exactly one row, whether it
\* returns TRUE or FALSE, and a call turned down prints none; without a stats
\* file no call prints; the rows of calls made at once are each printed
\* whole, one writer at a time.
C24_OneRowPerAcceptedCall ==
  /\ [](/\ WholeRows
        /\ Cardinality({t \in Threads : pc[t] = "stats_write"}) <= 1
        /\ \A t \in Threads :
             local[t].op = "process_rtp"
               => PrintedInCall(t) = IF pc[t] = "stats_write" THEN 1 ELSE 0)
  /\ [][\A t \in Threads :
          local[t].op = "process_rtp" /\ pc'[t] = "idle"
            => PrintedBy(t)' - local[t].printed
                 = IF stats_file /\ Accepted(local[t].expect) THEN 2 ELSE 0]_vars

\* The rows are not in the order of the instance lock: a thread is printing
\* the first row of the file while another, which had the instance lock and
\* released it before, has not begun its row.
C24_Witness ==
  \E t \in Threads, u \in Threads :
    /\ pc[t] = "stats_write"
    /\ stats_rows = <<t>>
    /\ u \in local[t].behind
    /\ pc[u] = "stats_lock"

\* Thread t is between the lock and the unlock of the instance mutex.
UnderLock(t) ==
  pc[t] \in {"cfg_locked", "rtcp_locked", "rtcp_base", "rtcp_ext", "rtcp_ntp",
             "rtp_locked", "rtp_diff", "rtp_fix", "rtp_end"}

\* C25: every call of set_pt_clock_rate, process_rtcp and process_rtp gives
\* the instance lock back on every way out: a thread outside a call holds no
\* lock, and a lock that is held is held by a thread on its way to the
\* unlock; so, the locks being fair, every call that has begun returns.
C25_EveryCallReturns ==
  /\ [](\A t \in Threads :
          /\ pc[t] = "idle" => mutex # t /\ stats_mutex # t
          /\ mutex = t <=> UnderLock(t)
          /\ stats_mutex = t <=> pc[t] = "stats_write")
  /\ \A t \in Threads : pc[t] # "idle" ~> pc[t] = "idle"

\* A thread waits for the instance lock while the other holds it in a call
\* of set_pt_clock_rate that is about to fail, a clock rate being stored.
C25_Witness ==
  \E t \in Threads, u \in Threads :
    /\ pc[t] \in {"cfg_lock", "rtcp_lock", "rtp_lock"}
    /\ pc[u] = "cfg_locked"
    /\ mutex = u
    /\ clock_rate # 0

\* C26: fs_last_rtp_ext_ts never decreases.  A step that changes it is a
\* call of process_rtp on an instance in sorted mode, which stays in sorted
\* mode, and the new value is the extended timestamp of the call's packet,
\* strictly greater than the value stored before if one was stored; no call
\* of process_rtcp changes it, though a Sender Report moves the tracker's
\* counter the packets share.
C26_SortedTimestampAscending ==
  [][fs_last_rtp_ext_ts' # fs_last_rtp_ext_ts
       => /\ feeded_sorted /\ feeded_sorted'
          /\ GST_CLOCK_TIME_IS_VALID(fs_last_rtp_ext_ts)
               => fs_last_rtp_ext_ts' > fs_last_rtp_ext_ts
          /\ GST_CLOCK_TIME_IS_VALID(fs_last_rtp_ext_ts')
          /\ \E packet \in RtpPackets(TimingInputs) :
               /\ RtpCall(packet.ssrc, packet.pt, packet.ts, packet.pts)
               /\ Handled(packet).ext_ts = fs_last_rtp_ext_ts'
          /\ \A buffer \in RtcpBuffers(TimingInputs), dts \in TimingInputs.dts :
               ~RtcpCall(buffer, dts)]_vars

\* In sorted mode, fs_last_rtp_ext_ts has gone up from the first packet's
\* timestamp and a Sender Report has then moved the tracker's counter past
\* it without touching it.
C26_Witness ==
  /\ feeded_sorted
  /\ base_interpolate_initiated
  /\ GST_CLOCK_TIME_IS_VALID(fs_last_rtp_ext_ts)
  /\ fs_last_rtp_ext_ts > base_interpolate_ext_ts
  /\ last_rtcp_ext_ts = rtp_ext_ts
  /\ rtp_ext_ts > fs_last_rtp_ext_ts

\* C27: a Sender Report is applied whatever SSRC it carries, also one that
\* differs from the SSRC stored from the RTP packets: it captures the base
\* if it is the first, sets last_rtcp_ntp_time to its NTP time and
\* last_rtcp_ext_ts and rtp_ext_ts from its RTP timestamp, the same for every
\* SSRC; and no call of process_rtcp changes the stored SSRC.
C27_SenderReportSsrcIgnored ==
  /\ \A packet \in SenderReports(ChecksInputs), dts \in ChecksInputs.dts :
       \A out \in {kms_rtp_synchronizer_process_rtcp_packet(packet, dts)} :
         /\ out.base_initiated
         /\ ~base_initiated
              => /\ out.base_ntp_time
                      = (packet.ntp_ts * GST_SECOND) \div WRAP32
                 /\ out.base_sync_time = dts
         /\ out.last_rtcp_ntp_time = (packet.ntp_ts * GST_SECOND) \div WRAP32
         /\ \A ext \in {gst_rtp_buffer_ext_timestamp(rtp_ext_ts,
                                                     packet.rtp_ts)} :
              /\ out.last_rtcp_ext_ts = ext.result
              /\ out.rtp_ext_ts = ext.stored
         /\ \A other \in SenderReports(ChecksInputs) :
              other.ntp_ts = packet.ntp_ts /\ other.rtp_ts = packet.rtp_ts
                => kms_rtp_synchronizer_process_rtcp_packet(other, dts) = out
  /\ \A buffer \in RtcpBuffers(ChecksInputs), dts \in ChecksInputs.dts :
       ~ENABLED (RtcpCall(buffer, dts) /\ ssrc' # ssrc)

\* The SSRC stored from the RTP packets is one no Sender Report carries, and
\* a Sender Report has been applied.
C27_Witness ==
  /\ first_ssrc.seen
  /\ ssrc \notin ChecksInputs.sr_ssrc
  /\ base_initiated
  /\ GST_CLOCK_TIME_IS_VALID(last_rtcp_ext_ts)

\* C28: on an instance demoted to unsorted mode, every packet that passes
\* the checks returns TRUE and leaves with the PTS its regime computes: no
\* packet is taken for a duplicate and none is raised to fs_last_pts;
\* fs_last_rtp_ext_ts and fs_last_pts stay as the demotion left them and the
\* instance stays in unsorted mode.
C28_UnsortedIgnoresSortedFields ==
  ~feeded_sorted
    => \A packet \in RtpPackets(TimingInputs) :
         \A out \in {Handled(packet)} :
           Accepted(out) /\ InBound(out)
             => /\ out.ret /\ out.error = "none"
                /\ out.path \in {"interpolate", "synchronized"}
                /\ out.pts = regime_pts(out.rtp_ext_ts, packet.pts)
                /\ out.fs_last_rtp_ext_ts = fs_last_rtp_ext_ts
                /\ out.fs_last_pts = fs_last_pts
                /\ ~out.feeded_sorted

\* A demoted instance is handed a packet with the timestamp of the last
\* sorted one, and the packet leaves with a PTS before that packet's.
C28_Witness ==
  /\ ~feeded_sorted
  /\ GST_CLOCK_TIME_IS_VALID(fs_last_pts)
  /\ \E packet \in RtpPackets(TimingInputs) :
       \E out \in {Handled(packet)} :
         /\ Accepted(out) /\ InBound(out)
         /\ out.ext_ts = fs_last_rtp_ext_ts
         /\ out.pts < fs_last_pts

\* Thread t is in the step in which its remote set_key stores and returns.
SetKeyReturns(t) == conn_pc[t] = "set_key_locked" /\ conn_pc'[t] = "idle"

\* Thread t is in the step in which its request-key callback returns.
RequestKeyReturns(t) ==
  conn_pc[t] = "request_key_locked" /\ conn_pc'[t] = "idle"

\* The key, authentication and cipher a connection holds.
StoredKey(c) == <<c.r_key, c.r_auth, c.r_cipher>>

\* The key caps of a stored key whose authentication and cipher are both
\* one of the indices 1 and 2.
NamedKeyCaps(c) ==
  LET auth_name == IF c.r_auth = 1 THEN "hmac-sha1-32" ELSE "hmac-sha1-80"
      cipher_name == IF c.r_cipher = 1 THEN "aes-128-icm" ELSE "aes-256-icm"
  IN  <<[name |-> "application/x-srtp",
         srtp_key |-> g_base64_decode(c.r_key[1]),
         srtp_cipher |-> cipher_name, srtp_auth |-> auth_name,
         srtcp_cipher |-> cipher_name, srtcp_auth |-> auth_name]>>

\* C29: r_key_set is false at creation, every remote set_key that returns
\* leaves it true with its own key, authentication and cipher stored, and
\* nothing else changes it or them (so it never returns to false, and a
\* local set_key does not set it); while it is false the request-key
\* callback has returned no caps; and a callback that returns gives no caps
\* while r_key_set is false, and afterwards the caps of the stored key,
\* authentication and cipher, or none when the authentication or the cipher
\* is not one of the indices 1 and 2.
C29_KeyCapsOnlyAfterRemoteKey ==
  /\ conn.r_key_set = FALSE
  /\ [](~conn.r_key_set => key_caps.caps = NULL /\ conn.r_key = NULL)
  /\ [][/\ \A t \in Threads :
             SetKeyReturns(t)
               => /\ conn'.r_key_set
                  /\ StoredKey(conn')
                       = <<conn_local[t].key, conn_local[t].auth,
                           conn_local[t].cipher>>
        /\ (\A t \in Threads : ~SetKeyReturns(t))
             => /\ conn'.r_key_set = conn.r_key_set
                /\ StoredKey(conn') = StoredKey(conn)
        /\ \A t \in Threads :
             RequestKeyReturns(t)
               => /\ key_caps'.returned
                  /\ key_caps'.caps
                       = IF /\ conn.r_key_set
                            /\ conn.r_auth \in 1 .. 2
                            /\ conn.r_cipher \in 1 .. 2
                         THEN NamedKeyCaps(conn)
                         ELSE NULL]_vars

\* C29 happens: a remote key with a named authentication and cipher is
\* stored, a local key is set too, and the callback has returned caps.
C29_Witness ==
  /\ conn.r_key_set
  /\ srtpenc.key # NULL
  /\ key_caps.returned
  /\ key_caps.caps # NULL

\* C30: a remote set_key given the key, authentication and cipher that are
\* stored leaves the connection as it is, r_updated too; one that differs
\* in any of the three (or is the first) stores its three values and sets
\* r_updated; r_updated goes back to FALSE only in a returning request-key
\* callback, and every returning callback leaves it FALSE; and each of
\* these steps is made by the one thread that holds the connection's lock,
\* however the threads' calls interleave.
C30_SetKeyIdempotentUpdatedOnce ==
  /\ [](/\ conn.r_updated => conn.r_key_set
        /\ \A t \in Threads :
             conn_mutex = t
               <=> conn_pc[t] \in {"set_key_locked", "request_key_locked"})
  /\ [][/\ \A t \in Threads :
             SetKeyReturns(t)
               => LET given == <<conn_local[t].key, conn_local[t].auth,
                                 conn_local[t].cipher>>
                  IN  /\ conn_mutex = t
                      /\ IF given = StoredKey(conn)
                         THEN conn' = conn
                         ELSE /\ StoredKey(conn') = given
                              /\ conn'.r_updated
        /\ \A t \in Threads :
             RequestKeyReturns(t) => conn_mutex = t /\ ~conn'.r_updated
        /\ (conn.r_updated /\ ~conn'.r_updated)
             => \E t \in Threads : RequestKeyReturns(t)
        /\ (~conn.r_updated /\ conn'.r_updated)
             => \E t \in Threads : SetKeyReturns(t)]_vars

\* C30 happens: a stored key has been taken by a callback (r_updated is
\* FALSE again), one thread holds the lock in a set_key with the very same
\* key, authentication and cipher, and the other thread's callback waits
\* for the lock.
C30_Witness ==
  /\ conn.r_key_set
  /\ ~conn.r_updated
  /\ key_caps.returned
  /\ \E t \in Threads, u \in Threads :
       /\ conn_pc[t] = "set_key_locked"
       /\ <<conn_local[t].key, conn_local[t].auth, conn_local[t].cipher>>
            = StoredKey(conn)
       /\ conn_pc[u] = "request_key_lock"

============================================================================
